---- MODULE Spec2Model ----
(***************************************************************************)
(* SoupBoss: embedding pipeline and similarity matcher.                    *)
(*                                                                         *)
(* The database tables (jobs, resumes, job_embeddings, resume_embeddings,  *)
(* match_results) are the state; one action per public operation of        *)
(* EmbeddingPipeline and SimilarityMatcher.  Python's None / SQL NULL is   *)
(* the empty tuple and a present value x is the one-element tuple <<x>>;   *)
(* a string is a tuple of characters (a word of a fixed label is written   *)
(* as one element).                                                        *)
(***************************************************************************)
EXTENDS Integers, Sequences, FiniteSets, TLC

None == <<>>
Some(x) == <<x>>

\* Python truthiness of an Optional[str] / Optional[list]: None and the
\* empty value are both falsy.
Truthy(o) == o # None /\ o[1] # <<>>

(***************************************************************************)
(* Models and the embedding service.                                       *)
(***************************************************************************)
DefaultModel == "nomic-embed-text"
OtherModel == "mxbai-embed-large"
Models == {DefaultModel, OtherModel}

\* The vectors the service answers with for a model: one dimension per
\* model (scaled down: 1 for the default model, 2 for the other).
VecsOf(m) ==
    IF m = DefaultModel THEN {<<1>>, <<-1>>}
    ELSE {<<1, 1>>, <<0, 0>>}

\* One answer of client.embeddings(model, prompt): an exception (connection
\* error, timeout) or a response that holds a vector of the model.
ServiceAnswers(m) ==
    {[kind |-> "error", v |-> <<>>]}
        \cup {[kind |-> "vector", v |-> x] : x \in VecsOf(m)}

(***************************************************************************)
(* Text.                                                                   *)
(***************************************************************************)
Whitespace == {" ", "\n", "\t"}

RECURSIVE SplitFrom(_, _, _)
SplitFrom(s, cur, acc) ==
    IF s = <<>> THEN (IF cur = <<>> THEN acc ELSE Append(acc, cur))
    ELSE IF Head(s) \in Whitespace
         THEN SplitFrom(Tail(s), <<>>, IF cur = <<>> THEN acc ELSE Append(acc, cur))
         ELSE SplitFrom(Tail(s), Append(cur, Head(s)), acc)

\* str.split(): the maximal runs of non-whitespace characters.
Split(s) == SplitFrom(s, <<>>, <<>>)

RECURSIVE Join(_, _)
Join(sep, parts) ==
    IF parts = <<>> THEN <<>>
    ELSE IF Len(parts) = 1 THEN parts[1]
    ELSE parts[1] \o sep \o Join(sep, Tail(parts))

\* str.strip()
Strip(s) == Join(<<" ">>, Split(s))

Prefix(s, n) == IF Len(s) <= n THEN s ELSE SubSeq(s, 1, n)

Ellipsis == <<".", ".", ".">>

max_chars == 30000

\* OllamaEmbeddingClient._clean_text
clean_text(text) ==
    IF ~Truthy(text) THEN <<>>
    ELSE LET cleaned == Join(<<" ">>, Split(text[1]))
         IN  IF Len(cleaned) > max_chars
             THEN Prefix(cleaned, max_chars) \o Ellipsis
             ELSE cleaned

ContentLimit == 8000

\* The labels, as words and the blanks between them.
JobTitleLabel == <<"Job", " ", "Title:", " ">>
DepartmentLabel == <<"Department:", " ">>
LocationLabel == <<"Location:", " ">>
ParagraphBreak == <<"\n", "\n">>

\* `a or b` on Optional[str]
OrElse(a, b) == IF Truthy(a) THEN a ELSE b

\* EmbeddingPipeline._prepare_job_text
prepare_job_text(job) ==
    LET titleParts ==
            IF job.title # <<>>
            THEN <<JobTitleLabel \o job.title, job.title>>
            ELSE <<>>
        deptParts ==
            IF Truthy(job.department)
            THEN <<DepartmentLabel \o job.department[1]>>
            ELSE <<>>
        locParts ==
            IF Truthy(job.location)
            THEN <<LocationLabel \o job.location[1]>>
            ELSE <<>>
        content == OrElse(job.content_text, job.content_html)
        contentParts ==
            IF Truthy(content)
            THEN IF Len(content[1]) > ContentLimit
                 THEN <<Prefix(content[1], ContentLimit) \o Ellipsis>>
                 ELSE <<content[1]>>
            ELSE <<>>
    IN  Some(Join(ParagraphBreak, titleParts \o deptParts \o locParts \o contentParts))

(***************************************************************************)
(* The embedding client.                                                   *)
(***************************************************************************)
\* OllamaEmbeddingClient.generate_embedding on a client of model m whose
\* readiness is `ready`, when the service would answer `ans`.  The result
\* is None or the vector, tagged with the model the service call was made
\* with.
generate_embedding(m, ready, text, ans) ==
    IF ~ready THEN None
    ELSE IF Strip(clean_text(text)) = <<>> THEN None
    ELSE IF ans.kind = "vector" /\ ans.v # <<>>
         THEN Some([v |-> ans.v, by |-> m])
         ELSE None

RECURSIVE generate_embeddings_batch_stopping(_, _, _, _)
\* generate_embeddings_batch ending at the first text that gives None.
generate_embeddings_batch_stopping(m, ready, texts, answers) ==
    IF texts = <<>> THEN <<>>
    ELSE IF generate_embedding(m, ready, Head(texts), Head(answers)) = None
    THEN <<None>>
    ELSE <<generate_embedding(m, ready, Head(texts), Head(answers))>>
            \o generate_embeddings_batch_stopping(m, ready, Tail(texts), Tail(answers))

\* OllamaEmbeddingClient.generate_embeddings_batch: one slot per text.
generate_embeddings_batch(m, ready, texts, answers) ==
    IF ~ready THEN [i \in 1..Len(texts) |-> None]
    ELSE [i \in 1..Len(texts) |-> generate_embedding(m, ready, texts[i], answers[i])]

(***************************************************************************)
(* Rows.                                                                   *)
(***************************************************************************)
JobIds == {1, 2}
ResumeIds == {1, 2}

MaxId(S) == CHOOSE n \in S : \A k \in S : k <= n

JobRow(t, d, l, h, c) ==
    [title |-> t, department |-> d, location |-> l,
     content_html |-> h, content_text |-> c]

FullJob == JobRow(<<"T">>, Some(<<"D">>), None, None, Some(<<"x", " ", "y">>))
TitleOnlyJob == JobRow(<<"T">>, None, Some(<<"L">>), None, None)
HtmlOnlyJob == JobRow(<<>>, None, None, Some(<<"h">>), None)
BlankJob == JobRow(<<>>, None, None, None, Some(<<" ">>))

ResumeRow(c) == [content_text |-> c]

TextResume == ResumeRow(Some(<<"r", "\n", "s">>))
NullResume == ResumeRow(None)

\* The databases the runs start from.  A table maps an id to its row, None
\* when no row has the id.
Datasets ==
    { [jobs |-> (1 :> Some(FullJob) @@ 2 :> Some(TitleOnlyJob)),
       resumes |-> (1 :> Some(TextResume) @@ 2 :> Some(NullResume))],
      [jobs |-> (1 :> Some(HtmlOnlyJob) @@ 2 :> Some(BlankJob)),
       resumes |-> (1 :> Some(TextResume) @@ 2 :> Some(TextResume))],
      [jobs |-> (1 :> None @@ 2 :> Some(FullJob)),
       resumes |-> (1 :> Some(TextResume) @@ 2 :> None)] }

VARIABLES
    jobs,               \* table jobs: id -> Optional row
    resumes,            \* table resumes: id -> Optional row
    job_embeddings,     \* table job_embeddings: <<job_id, model>> -> Optional vector
    resume_embeddings,  \* table resume_embeddings: <<resume_id, model>> -> Optional vector
    match_results,      \* table match_results: <<resume_id, job_id, model>> -> Optional row
    model_name,         \* EmbeddingPipeline.model_name / SimilarityMatcher.model_name
    client_model,       \* EmbeddingPipeline.embedding_client.model
    sqlite_sequence,    \* AUTOINCREMENT: the highest id each table has given out
    model_ready,        \* OllamaEmbeddingClient._model_ready
    runs,               \* operations made so far in a run of bounded length
    call,               \* the last call made and what it did
    env_file,           \* the file .env: variable -> line, None when there is no file
    config_file,        \* soupboss.config.json: the configuration saved, None when there is no file
    environ,            \* os.environ of the process
    config,             \* ConfigManager.config
    writers,            \* the embedding runs that write side by side, each on its own connection
    db_lock             \* the connection that holds SQLite's write lock

vars == <<jobs, resumes, job_embeddings, resume_embeddings, match_results,
          model_name, client_model, sqlite_sequence, model_ready, runs, call,
          env_file, config_file, environ, config, writers, db_lock>>

NoCall ==
    [op |-> "none", ids |-> None, ids2 |-> None, flag |-> FALSE,
     submitted |-> <<>>, nulls |-> <<>>, written |-> <<>>,
     ret |-> 0, raised |-> "", computed |-> <<>>, results |-> <<>>,
     remote |-> <<>>, replaced |-> <<>>, submitted_resumes |-> <<>>,
     again |-> "no", deleted |-> 0, returned |-> None, first |-> None,
     answers |-> <<>>, listed |-> ""]

(***************************************************************************)
(* ConfigManager: the .env file, the JSON file, the process environment    *)
(* and the configuration in memory.                                        *)
(***************************************************************************)
\* The environment variables _apply_env_overrides maps, and the setting of
\* the section "ollama" each one overrides.
EnvVars == {"SOUPBOSS_OLLAMA_MODEL", "SOUPBOSS_OLLAMA_PORT"}

env_mappings ==
    ("SOUPBOSS_OLLAMA_MODEL" :> "model") @@ ("SOUPBOSS_OLLAMA_PORT" :> "port")

\* A setting's value: a str, or an int written in decimal.
Str(s) == [type |-> "str", text |-> s]
Int_(s) == [type |-> "int", text |-> s]

DEFAULT_CONFIG == [model |-> Str("nomic-embed-text"), port |-> Int_("11434")]

\* int(value): the number a string reads as, or None for ValueError.
IntOf(value) ==
    CASE value = "8080" -> Some(Int_("8080"))
      [] value = " 8080" -> Some(Int_("8080"))
      [] OTHER -> None

\* dotenv.set_key writes KEY='value'; reading the file gives the text
\* between the quotes.
DotenvLine(value) == <<"'", value, "'">>
DotenvValue(line) == line[2]

\* The environment a process starts with: no SoupBoss variable is set.
StartEnviron == [v \in EnvVars |-> None]

\* load_dotenv(path), override left False: a variable of the file goes to
\* os.environ only when os.environ does not hold it yet.
load_dotenv(file, env) ==
    [v \in EnvVars |->
        IF env[v] = None /\ file[v] # None
        THEN Some(DotenvValue(file[v][1]))
        ELSE env[v]]

\* ConfigManager._merge_configs on one section of plain values: the
\* settings of the file replace those of the base.
merge_configs(base, override) == override @@ base

\* ConfigManager._apply_env_overrides: a variable that is set replaces the
\* setting, converted to the type the setting has; a ValueError of int()
\* leaves the setting.
apply_env_overrides(cfg, env) ==
    [key \in DOMAIN cfg |->
        LET vs == {v \in EnvVars : env_mappings[v] = key /\ env[v] # None}
        IN  IF vs = {} THEN cfg[key]
            ELSE LET value == env[CHOOSE v \in vs : TRUE][1]
                 IN  IF cfg[key].type = "int"
                     THEN (IF IntOf(value) # None THEN IntOf(value)[1] ELSE cfg[key])
                     ELSE Str(value)]

\* ConfigManager._load_config: the defaults, the .env file loaded into the
\* environment when it exists, the JSON file merged in when it exists, and
\* the environment's overrides.  It gives the configuration and the
\* environment it leaves.
load_config(dotenv_file, json_file, env) ==
    LET loaded == IF dotenv_file # None THEN load_dotenv(dotenv_file[1], env) ELSE env
        merged == IF json_file # None
                  THEN merge_configs(DEFAULT_CONFIG, json_file[1])
                  ELSE DEFAULT_CONFIG
    IN  [config |-> apply_env_overrides(merged, loaded), environ |-> loaded]

\* ConfigManager.__init__ in a process just started where no file exists.
InitConfig ==
    /\ env_file = None
    /\ config_file = None
    /\ environ = load_config(None, None, StartEnviron).environ
    /\ config = load_config(None, None, StartEnviron).config

\* No embedding run is writing.
InitWriters ==
    /\ writers = [w \in {} |-> 0]
    /\ db_lock = None

\* get_embedding_client(): called without a model, so the client takes the
\* configured one.
get_embedding_client == DefaultModel

\* EmbeddingPipeline.__init__ / IntelligenceEngine.__init__ on a database
\* that holds jobs and resumes and no embeddings yet.  The pipeline runs are
\* those of a client that has found its model ready: one that has not
\* answers None to every text, as a failing service does.
Init ==
    /\ \E d \in Datasets : jobs = d.jobs /\ resumes = d.resumes
    /\ job_embeddings = [k \in JobIds \X Models |-> None]
    /\ resume_embeddings = [k \in ResumeIds \X Models |-> None]
    /\ match_results = [k \in ResumeIds \X JobIds \X Models |-> None]
    /\ model_name \in Models
    /\ client_model = get_embedding_client
    /\ sqlite_sequence = [jobs |-> MaxId(JobIds), resumes |-> MaxId(ResumeIds)]
    /\ model_ready = Some(TRUE)
    /\ runs = 0
    /\ call = NoCall
    /\ InitConfig
    /\ InitWriters

(***************************************************************************)
(* Database operations.                                                    *)
(***************************************************************************)
\* SoupBossDB.get_job_embedding / get_resume_embedding
get_embedding(table, id, model) == table[<<id, model>>]

\* save_embedding as a plain INSERT: the row is added beside the one stored.
save_embedding_inserting(table, id, model, embedding) ==
    [table EXCEPT ![<<id, model>>] = @ \o embedding]

\* SoupBossDB.save_job_embedding / save_resume_embedding: INSERT OR REPLACE
\* on the UNIQUE (id, embedding_model) key.  The caller has made sure the
\* embedding is not None (None has no tobytes()).
save_embedding(table, id, model, embedding) ==
    [table EXCEPT ![<<id, model>>] = embedding]

\* EmbeddingPipeline._has_job_embedding / _has_resume_embedding
has_embedding(table, id, model) == get_embedding(table, id, model) # None

\* The ids a table holds a row for, as a list.
RECURSIVE IdsDescending(_, _)
IdsDescending(table, n) ==
    IF n = 0 THEN <<>>
    ELSE (IF n \in DOMAIN table /\ table[n] # None THEN <<n>> ELSE <<>>)
            \o IdsDescending(table, n - 1)

\* SoupBossDB.get_jobs / get_resumes: every row, newest first.
get_rows(table) == IdsDescending(table, MaxId(DOMAIN table))

RECURSIVE RowsById(_, _)
\* The `for id in ids: row = SELECT ... WHERE id = ?` loop: one entry per
\* listed id that has a row, in list order.
RowsById(table, ids) ==
    IF ids = <<>> THEN <<>>
    ELSE (IF Head(ids) \in DOMAIN table /\ table[Head(ids)] # None
          THEN <<Head(ids)>> ELSE <<>>) \o RowsById(table, Tail(ids))

\* generate_*_embeddings, the selection: `if ids:` takes the listed rows,
\* anything falsy takes every row.
select_rows(table, ids) ==
    IF Truthy(ids) THEN RowsById(table, ids[1]) ELSE get_rows(table)

RECURSIVE FilterSeq_unforced(_, _, _, _, _)
\* FilterSeq with the force flag dropped from the test.
FilterSeq_unforced(rows, embeddings, model, force, acc) ==
    IF rows = <<>> THEN acc
    ELSE FilterSeq_unforced(Tail(rows), embeddings, model, force,
                   IF ~has_embedding(embeddings, Head(rows), model)
                   THEN Append(acc, Head(rows)) ELSE acc)

RECURSIVE FilterSeq(_, _, _, _, _)
\* generate_*_embeddings, the filter: those without an embedding, or all
\* when force_regenerate.
FilterSeq(rows, embeddings, model, force, acc) ==
    IF rows = <<>> THEN acc
    ELSE FilterSeq(Tail(rows), embeddings, model, force,
                   IF force \/ ~has_embedding(embeddings, Head(rows), model)
                   THEN Append(acc, Head(rows)) ELSE acc)

\* rows_to_process without the test for a stored embedding.
rows_to_process_uncached(rows, embeddings, model, force) == rows

rows_to_process(rows, embeddings, model, force) ==
    FilterSeq(rows, embeddings, model, force, <<>>)

(***************************************************************************)
(* EmbeddingPipeline.                                                      *)
(***************************************************************************)
\* The id lists a caller passes: None, the empty list, lists of one and two
\* ids, and a list that names an id twice.
IdArgs ==
    {None, Some(<<>>), Some(<<1>>), Some(<<1, 2>>), Some(<<1, 1>>)}

RECURSIVE generate_loop_stopping(_, _, _, _, _, _)
\* generate_loop leaving the loop at the first None embedding.
generate_loop_stopping(todo, texts, answers, i, table, acc) ==
    IF i > Len(todo) THEN [table |-> table] @@ acc
    ELSE LET embeddings ==
                 generate_embeddings_batch(client_model, TRUE, <<texts[i]>>, <<answers[i]>>)
             embedding == embeddings[1]
         IN  IF embedding = None
             THEN [table |-> table] @@ [acc EXCEPT !.nulls = Append(@, todo[i])]
             ELSE generate_loop_stopping(todo, texts, answers, i + 1,
                      save_embedding(table, todo[i], model_name, embedding),
                      [acc EXCEPT !.written = Append(@, todo[i]),
                                  !.generated = @ + 1])

RECURSIVE generate_loop_counting(_, _, _, _, _, _)
\* generate_loop counting a candidate before its embedding is saved.
generate_loop_counting(todo, texts, answers, i, table, acc) ==
    IF i > Len(todo) THEN [table |-> table] @@ acc
    ELSE LET embeddings ==
                 generate_embeddings_batch(client_model, TRUE, <<texts[i]>>, <<answers[i]>>)
             embedding == embeddings[1]
         IN  IF embedding = None
             THEN generate_loop_counting(todo, texts, answers, i + 1, table,
                      [acc EXCEPT !.nulls = Append(@, todo[i]),
                                  !.generated = @ + 1])
             ELSE generate_loop_counting(todo, texts, answers, i + 1,
                      save_embedding(table, todo[i], model_name, embedding),
                      [acc EXCEPT !.written = Append(@, todo[i]),
                                  !.generated = @ + 1])

RECURSIVE generate_loop(_, _, _, _, _, _)
\* The `for job in jobs_to_process:` loop of generate_job_embeddings and the
\* `for resume in resumes_to_process:` loop of generate_resume_embeddings.
\* Each entity's text goes to generate_embeddings_batch as a one-element
\* batch; the embedding is saved under the pipeline's model_name and
\* counted.  A None embedding makes save_*_embedding raise (None has no
\* tobytes()), the `except Exception` catches it and the loop continues.
generate_loop(todo, texts, answers, i, table, acc) ==
    IF i > Len(todo) THEN [table |-> table] @@ acc
    ELSE LET embeddings ==
                 generate_embeddings_batch(client_model, TRUE, <<texts[i]>>, <<answers[i]>>)
             embedding == embeddings[1]
         IN  IF embedding = None
             THEN generate_loop(todo, texts, answers, i + 1, table,
                      [acc EXCEPT !.nulls = Append(@, todo[i])])
             ELSE generate_loop(todo, texts, answers, i + 1,
                      save_embedding(table, todo[i], model_name, embedding),
                      [acc EXCEPT !.written = Append(@, todo[i]),
                                  !.generated = @ + 1])

LoopStart == [generated |-> 0, written |-> <<>>, nulls |-> <<>>]

\* What the call record keeps of a generate_*_embeddings call: its
\* arguments, the entities handed to the client (submitted), those whose
\* embedding came back None (nulls), those saved (written), those saved
\* that had an embedding under the pipeline's model before (replaced) and
\* the count returned.  `again` relates the call to the one before it: "clean" when it
\* repeats that call (same operation, same ids, both without force) and no
\* embedding of that call came back None, "failed" when it repeats it and
\* one did, "no" otherwise.
PipelineCall(op, ids, force, todo, out) ==
    [NoCall EXCEPT !.op = op, !.ids = ids, !.flag = force,
                   !.submitted = todo, !.nulls = out.nulls,
                   !.written = out.written, !.ret = out.generated,
                   !.replaced =
                       SelectSeq(out.written,
                                 LAMBDA e :
                                     has_embedding(IF op = "generate_job_embeddings"
                                                   THEN job_embeddings
                                                   ELSE resume_embeddings,
                                                   e, model_name)),
                   !.again = IF call.op = op /\ call.ids = ids /\ ~call.flag /\ ~force
                             THEN (IF call.nulls = <<>> THEN "clean" ELSE "failed")
                             ELSE "no"]

\* generate_job_embeddings removing the match results of the jobs it saves
\* an embedding for.
generate_job_embeddings_invalidating(job_ids, force_regenerate) ==
    \E jobs_to_process \in
            {rows_to_process(select_rows(jobs, job_ids), job_embeddings,
                             model_name, force_regenerate)} :
    \E texts \in
            {[i \in 1..Len(jobs_to_process) |->
                prepare_job_text(jobs[jobs_to_process[i]][1])]} :
    \E answers \in [1..Len(jobs_to_process) -> ServiceAnswers(client_model)] :
    \E out \in
            {generate_loop(jobs_to_process, texts, answers, 1,
                           job_embeddings, LoopStart)} :
        /\ job_embeddings' = out.table
        /\ match_results' =
               [k \in DOMAIN match_results |->
                   IF \E i \in DOMAIN out.written : out.written[i] = k[2]
                   THEN None ELSE match_results[k]]
        /\ call' = PipelineCall("generate_job_embeddings", job_ids,
                                force_regenerate, jobs_to_process, out)
        /\ UNCHANGED <<jobs, resumes, resume_embeddings,
                       model_name, client_model, sqlite_sequence, model_ready,
                   env_file, config_file, environ, config, writers, db_lock>>

\* EmbeddingPipeline.generate_job_embeddings(job_ids, force_regenerate).
\* (A value the code computes once is bound once, as \E x \in {value}.)
generate_job_embeddings(job_ids, force_regenerate) ==
    \E jobs_to_process \in
            {rows_to_process(select_rows(jobs, job_ids), job_embeddings,
                             model_name, force_regenerate)} :
    \E texts \in
            {[i \in 1..Len(jobs_to_process) |->
                prepare_job_text(jobs[jobs_to_process[i]][1])]} :
    \E answers \in [1..Len(jobs_to_process) -> ServiceAnswers(client_model)] :
    \E out \in
            {generate_loop(jobs_to_process, texts, answers, 1,
                           job_embeddings, LoopStart)} :
        /\ job_embeddings' = out.table
        /\ call' = PipelineCall("generate_job_embeddings", job_ids,
                                force_regenerate, jobs_to_process, out)
        /\ UNCHANGED <<jobs, resumes, resume_embeddings, match_results,
                       model_name, client_model, sqlite_sequence, model_ready,
                   env_file, config_file, environ, config, writers, db_lock>>

\* EmbeddingPipeline.generate_resume_embeddings(resume_ids, force_regenerate)
generate_resume_embeddings(resume_ids, force_regenerate) ==
    \E resumes_to_process \in
            {rows_to_process(select_rows(resumes, resume_ids), resume_embeddings,
                             model_name, force_regenerate)} :
    \E texts \in
            {[i \in 1..Len(resumes_to_process) |->
                resumes[resumes_to_process[i]][1].content_text]} :
    \E answers \in [1..Len(resumes_to_process) -> ServiceAnswers(client_model)] :
    \E out \in
            {generate_loop(resumes_to_process, texts, answers, 1,
                           resume_embeddings, LoopStart)} :
        /\ resume_embeddings' = out.table
        /\ call' = PipelineCall("generate_resume_embeddings", resume_ids,
                                force_regenerate, resumes_to_process, out)
        /\ UNCHANGED <<jobs, resumes, job_embeddings, match_results,
                       model_name, client_model, sqlite_sequence, model_ready,
                   env_file, config_file, environ, config, writers, db_lock>>

GenerateJobEmbeddings ==
    /\ \E ids \in IdArgs, force \in BOOLEAN : generate_job_embeddings(ids, force)
    /\ UNCHANGED runs

GenerateResumeEmbeddings ==
    /\ \E ids \in IdArgs, force \in BOOLEAN : generate_resume_embeddings(ids, force)
    /\ UNCHANGED runs

Next ==
    \/ GenerateJobEmbeddings
    \/ GenerateResumeEmbeddings

Spec == Init /\ [][Next]_vars

(***************************************************************************)
(* SimilarityMatcher.                                                      *)
(***************************************************************************)
\* A similarity score.  The cosine is kept as its signed square in lowest
\* terms, an exact rational that orders as the cosine does (float rounding
\* is left out); nan is the float NaN.
NaN == [nan |-> TRUE, num |-> 0, den |-> 1]

Abs(n) == IF n < 0 THEN -n ELSE n

RECURSIVE GCD(_, _)
GCD(a, b) == IF b = 0 THEN a ELSE GCD(b, a % b)

Ratio(n, d) ==
    LET g == GCD(Abs(n), d)
    IN  [nan |-> FALSE, num |-> n \div g, den |-> d \div g]

Zero == Ratio(0, 1)

\* Python's float `<`: false whenever a side is NaN.
float_lt(x, y) == ~x.nan /\ ~y.nan /\ x.num * y.den < y.num * x.den

RECURSIVE DotFrom(_, _, _)
DotFrom(a, b, i) ==
    IF i > Len(a) THEN 0 ELSE a[i] * b[i] + DotFrom(a, b, i + 1)

\* np.dot of two 1-D arrays of one length
Dot(a, b) == DotFrom(a, b, 1)

\* np.linalg.norm(a), squared
NormSq(a) == Dot(a, a)

\* SimilarityMatcher._cosine_similarity(a, b).  a / norm(a) divides by zero
\* without raising and leaves NaN components when the norm is 0; np.dot
\* raises ValueError ("shapes ... not aligned") when the lengths differ and
\* gives NaN when a component is NaN.
cosine_similarity(a, b) ==
    IF Len(a) # Len(b) THEN [raised |-> "ValueError", value |-> NaN]
    ELSE IF NormSq(a) = 0 \/ NormSq(b) = 0 THEN [raised |-> "", value |-> NaN]
    ELSE LET d == Dot(a, b)
         IN  [raised |-> "",
              value |-> Ratio((IF d < 0 THEN -1 ELSE 1) * d * d,
                              NormSq(a) * NormSq(b))]

\* MatchResult (the display fields are left out)
MatchResult(resume_id, job_id, similarity) ==
    [resume_id |-> resume_id, job_id |-> job_id, similarity_score |-> similarity]

\* SoupBossDB.save_match_result: INSERT OR REPLACE on the UNIQUE
\* (resume_id, job_id, embedding_model) key; adjusted_score takes the
\* default None.  sqlite3 binds a NaN as NULL, which the NOT NULL
\* similarity_score column refuses with IntegrityError.
save_match_result(table, resume_id, job_id, similarity_score, model) ==
    IF similarity_score.nan
    THEN [raised |-> "IntegrityError", table |-> table]
    ELSE [raised |-> "",
          table |-> [table EXCEPT ![<<resume_id, job_id, model>>] =
                        Some([similarity_score |-> similarity_score,
                              adjusted_score |-> None])]]

\* The ids of the rows _get_resumes_with_embeddings / _get_jobs_with_embeddings
\* select: the entity has a row, an embedding under the matcher's model and,
\* when the id list is truthy, its id in the list.
ids_with_embeddings(rows, embeddings, ids, model) ==
    {e \in DOMAIN rows :
        /\ rows[e] # None
        /\ embeddings[<<e, model>>] # None
        /\ Truthy(ids) => \E i \in DOMAIN ids[1] : ids[1][i] = e}

\* The orders a query without ORDER BY may return a set of rows in.
Orderings(S) ==
    {q \in [1..Cardinality(S) -> S] :
        \A i, j \in 1..Cardinality(S) : i # j => q[i] # q[j]}

\* Python's list.sort(key=similarity_score, reverse=True) on a list shorter
\* than 64: the list is reversed, its leading run is found (count_run) and
\* reversed when strictly descending, the remaining items are inserted by
\* binary search (binarysort), and the list is reversed again.
ISLT(x, y) == float_lt(x.similarity_score, y.similarity_score)

Reverse(q) == [i \in 1..Len(q) |-> q[Len(q) + 1 - i]]

ReversePrefix(q, n) == [i \in 1..Len(q) |-> IF i <= n THEN q[n + 1 - i] ELSE q[i]]

RECURSIVE RunEnd(_, _, _)
RunEnd(q, i, descending) ==
    IF i > Len(q) THEN Len(q)
    ELSE IF ISLT(q[i], q[i - 1]) = descending THEN RunEnd(q, i + 1, descending)
    ELSE i - 1

count_run(q) ==
    IF Len(q) = 1 THEN [n |-> 1, descending |-> FALSE]
    ELSE LET descending == ISLT(q[2], q[1])
         IN  [n |-> RunEnd(q, 3, descending), descending |-> descending]

RECURSIVE BinarySearch(_, _, _, _)
BinarySearch(q, pivot, l, r) ==
    IF l >= r THEN l
    ELSE LET p == l + ((r - l) \div 2)
         IN  IF ISLT(pivot, q[p]) THEN BinarySearch(q, pivot, l, p)
             ELSE BinarySearch(q, pivot, p + 1, r)

RECURSIVE binarysort(_, _)
binarysort(q, start) ==
    IF start > Len(q) THEN q
    ELSE LET pivot == q[start]
             l == BinarySearch(q, pivot, 1, start)
         IN  binarysort([i \in 1..Len(q) |->
                            IF i < l \/ i > start THEN q[i]
                            ELSE IF i = l THEN pivot
                            ELSE q[i - 1]],
                        start + 1)

sort_reverse(q) ==
    IF Len(q) < 2 THEN q
    ELSE LET r == Reverse(q)
             run == count_run(r)
         IN  Reverse(binarysort(IF run.descending THEN ReversePrefix(r, run.n) ELSE r,
                                run.n + 1))

RECURSIVE similarity_loop_rolled_back(_, _, _, _, _, _)
\* similarity_loop saving in one transaction: an exception takes back the
\* rows saved before it.
similarity_loop_rolled_back(pairs, i, save_results, model, table, results) ==
    IF i > Len(pairs)
    THEN [raised |-> "", results |-> results, table |-> table]
    ELSE LET resume_id == pairs[i][1]
             job_id == pairs[i][2]
             similarity ==
                 cosine_similarity(resume_embeddings[<<resume_id, model>>][1].v,
                                   job_embeddings[<<job_id, model>>][1].v)
             match_result == MatchResult(resume_id, job_id, similarity.value)
             saved == save_match_result(table, resume_id, job_id,
                                        similarity.value, model)
         IN  IF similarity.raised # ""
             THEN [raised |-> similarity.raised, results |-> results,
                   table |-> match_results]
             ELSE IF save_results /\ saved.raised # ""
             THEN [raised |-> saved.raised,
                   results |-> Append(results, match_result),
                   table |-> match_results]
             ELSE similarity_loop_rolled_back(pairs, i + 1, save_results, model,
                                  IF save_results THEN saved.table ELSE table,
                                  Append(results, match_result))

RECURSIVE similarity_loop(_, _, _, _, _, _)
\* The `for resume in resumes_data: for job in jobs_data:` loop, over the
\* pairs in loop order.  An exception of _cosine_similarity or of
\* save_match_result leaves the loop and the call; what was saved before it
\* stays saved (save_match_result commits each row).
similarity_loop(pairs, i, save_results, model, table, results) ==
    IF i > Len(pairs)
    THEN [raised |-> "", results |-> results, table |-> table]
    ELSE LET resume_id == pairs[i][1]
             job_id == pairs[i][2]
             similarity ==
                 cosine_similarity(resume_embeddings[<<resume_id, model>>][1].v,
                                   job_embeddings[<<job_id, model>>][1].v)
             match_result == MatchResult(resume_id, job_id, similarity.value)
             saved == save_match_result(table, resume_id, job_id,
                                        similarity.value, model)
         IN  IF similarity.raised # ""
             THEN [raised |-> similarity.raised, results |-> results, table |-> table]
             ELSE IF save_results /\ saved.raised # ""
             THEN [raised |-> saved.raised,
                   results |-> Append(results, match_result), table |-> table]
             ELSE similarity_loop(pairs, i + 1, save_results, model,
                                  IF save_results THEN saved.table ELSE table,
                                  Append(results, match_result))

\* resumes_data x jobs_data in loop order: resume-major, job-minor.
LoopPairs(resumes_data, jobs_data) ==
    [k \in 1..(Len(resumes_data) * Len(jobs_data)) |->
        <<resumes_data[((k - 1) \div Len(jobs_data)) + 1],
          jobs_data[((k - 1) % Len(jobs_data)) + 1]>>]

\* What the call record keeps of a calculate_similarity_batch call: its
\* arguments, the exception it raised ("" when it returned), the results in
\* the order they were computed and the list it returned.
MatcherCall(resume_ids, job_ids, save_results, raised, computed, results) ==
    [NoCall EXCEPT !.op = "calculate_similarity_batch",
                   !.ids = resume_ids, !.ids2 = job_ids, !.flag = save_results,
                   !.raised = raised, !.computed = computed,
                   !.results = results, !.ret = Len(results)]

\* The calculate_similarity_batch calls one matcher run makes.
MaxMatchRuns == 1

\* SimilarityMatcher.calculate_similarity_batch(resume_ids, job_ids, save_results)
calculate_similarity_batch(resume_ids, job_ids, save_results) ==
    /\ \E resumes_data \in
              Orderings(ids_with_embeddings(resumes, resume_embeddings,
                                            resume_ids, model_name)) :
       \E jobs_data \in
              Orderings(ids_with_embeddings(jobs, job_embeddings,
                                            job_ids, model_name)) :
          IF resumes_data = <<>> \/ jobs_data = <<>>
          THEN /\ match_results' = match_results
               /\ call' = MatcherCall(resume_ids, job_ids, save_results,
                                      "", <<>>, <<>>)
          ELSE \E out \in {similarity_loop(LoopPairs(resumes_data, jobs_data), 1,
                                           save_results, model_name,
                                           match_results, <<>>)} :
                  /\ match_results' = out.table
                  /\ call' = MatcherCall(resume_ids, job_ids, save_results,
                                         out.raised, out.results,
                                         IF out.raised = ""
                                         THEN sort_reverse(out.results)
                                         ELSE <<>>)
    /\ UNCHANGED <<jobs, resumes, job_embeddings, resume_embeddings,
                   model_name, client_model, sqlite_sequence, model_ready,
                   env_file, config_file, environ, config, writers, db_lock>>

CalculateSimilarityBatch ==
    /\ runs < MaxMatchRuns
    /\ runs' = runs + 1
    /\ \E resume_ids \in IdArgs, job_ids \in IdArgs, save_results \in BOOLEAN :
           calculate_similarity_batch(resume_ids, job_ids, save_results)

\* The database the matcher runs start from: two jobs and two resumes that
\* the pipeline embeds.
MatchJobs == (1 :> Some(FullJob) @@ 2 :> Some(TitleOnlyJob))
MatchResumes == (1 :> Some(TextResume) @@ 2 :> Some(TextResume))

ZeroOf(m) == IF m = DefaultModel THEN <<0>> ELSE <<0, 0>>

\* What earlier runs can have left for one entity under a model name: no
\* embedding, a vector of the configured model (stored by the pipeline under
\* whatever model_name it was built with), or, under the other model's name,
\* a vector of that model (stored by the evaluator's
\* generate_embeddings_for_model).  The service may answer the zero vector.
StoredUnder(key) ==
    {None}
        \cup {Some([v |-> x, by |-> DefaultModel]) :
                 x \in VecsOf(DefaultModel) \cup {ZeroOf(DefaultModel)}}
        \cup (IF key = DefaultModel THEN {}
              ELSE {Some([v |-> x, by |-> key]) : x \in VecsOf(key)})

OtherKey(m) == CHOOSE k \in Models : k # m

\* The embedding every entity has under the model name the matcher does not
\* read.
StoredElsewhere(key) ==
    Some([v |-> CHOOSE x \in VecsOf(key) : TRUE, by |-> key])

\* SimilarityMatcher.__init__ on a database earlier runs have filled.
InitMatch ==
    /\ jobs = MatchJobs
    /\ resumes = MatchResumes
    /\ model_name \in Models
    /\ client_model = get_embedding_client
    /\ job_embeddings \in [JobIds \X Models -> StoredUnder(OtherModel)]
    /\ resume_embeddings \in [ResumeIds \X Models -> StoredUnder(OtherModel)]
    /\ \A e \in JobIds :
           /\ job_embeddings[<<e, model_name>>] \in StoredUnder(model_name)
           /\ job_embeddings[<<e, OtherKey(model_name)>>]
                  = StoredElsewhere(OtherKey(model_name))
    /\ \A e \in ResumeIds :
           /\ resume_embeddings[<<e, model_name>>] \in StoredUnder(model_name)
           /\ resume_embeddings[<<e, OtherKey(model_name)>>]
                  = StoredElsewhere(OtherKey(model_name))
    /\ match_results = [k \in ResumeIds \X JobIds \X Models |-> None]
    /\ sqlite_sequence = [jobs |-> MaxId(JobIds), resumes |-> MaxId(ResumeIds)]
    /\ model_ready = Some(TRUE)
    /\ runs = 0
    /\ call = NoCall
    /\ InitConfig
    /\ InitWriters

NextMatch == CalculateSimilarityBatch

SpecMatch == InitMatch /\ [][NextMatch]_vars

(***************************************************************************)
(* EmbeddingModelEvaluator.                                                *)
(***************************************************************************)
\* The ids of the rows `SELECT ... WHERE content_text IS NOT NULL` gives,
\* LEFT JOINed to the embeddings of the model and kept when none is found
\* (`je.id IS NULL`) unless force_regenerate; in id order.
RECURSIVE rows_to_evaluate(_, _, _, _, _)
rows_to_evaluate(rows, embeddings, model, force, n) ==
    IF n = 0 THEN <<>>
    ELSE rows_to_evaluate(rows, embeddings, model, force, n - 1)
            \o (IF /\ rows[n] # None
                   /\ rows[n][1].content_text # None
                   /\ (force \/ embeddings[<<n, model>>] = None)
                THEN <<n>> ELSE <<>>)

RECURSIVE evaluate_loop(_, _, _, _, _, _)
\* The `for job in jobs_to_process:` and `for resume in resumes_to_process:`
\* loops of generate_embeddings_for_model: the row's content_text goes to
\* generate_embedding of a client built for the model, and an embedding that
\* is not None is saved under the model's name.
evaluate_loop(todo, rows, answers, i, model, table) ==
    IF i > Len(todo) THEN table
    ELSE LET embedding ==
                 generate_embedding(model, TRUE, rows[todo[i]][1].content_text,
                                    answers[i])
         IN  evaluate_loop(todo, rows, answers, i + 1, model,
                 IF embedding # None
                 THEN save_embedding(table, todo[i], model, embedding)
                 ELSE table)

\* What the call record keeps of a generate_embeddings_for_model call: the
\* model (in ids), the force flag, the exception raised and the jobs and the
\* resumes handed to the client.
EvaluatorCall(model, force, raised, jobs_to_process, resumes_to_process) ==
    [NoCall EXCEPT !.op = "generate_embeddings_for_model",
                   !.ids = Some(<<model>>), !.flag = force, !.raised = raised,
                   !.submitted = jobs_to_process,
                   !.submitted_resumes = resumes_to_process]

\* EmbeddingModelEvaluator.generate_embeddings_for_model(model, force_regenerate);
\* ready is what ensure_model_ready of the new client answers.
generate_embeddings_for_model(model, force_regenerate, ready) ==
    /\ IF ~ready
       THEN /\ call' = EvaluatorCall(model, force_regenerate, "RuntimeError", <<>>, <<>>)
            /\ UNCHANGED <<job_embeddings, resume_embeddings>>
       ELSE \E jobs_to_process \in
                    {rows_to_evaluate(jobs, job_embeddings, model,
                                      force_regenerate, MaxId(JobIds))} :
            \E resumes_to_process \in
                    {rows_to_evaluate(resumes, resume_embeddings, model,
                                      force_regenerate, MaxId(ResumeIds))} :
            \E job_answers \in [1..Len(jobs_to_process) -> ServiceAnswers(model)] :
            \E resume_answers \in [1..Len(resumes_to_process) -> ServiceAnswers(model)] :
                /\ job_embeddings' =
                       evaluate_loop(jobs_to_process, jobs, job_answers, 1,
                                     model, job_embeddings)
                /\ resume_embeddings' =
                       evaluate_loop(resumes_to_process, resumes, resume_answers, 1,
                                     model, resume_embeddings)
                /\ call' = EvaluatorCall(model, force_regenerate, "",
                                         jobs_to_process, resumes_to_process)
    /\ UNCHANGED <<jobs, resumes, match_results, model_name, client_model,
                   sqlite_sequence, model_ready,
                   env_file, config_file, environ, config, writers, db_lock>>

\* The operations one run of the pipeline beside the evaluator makes.
MaxEvalOps == 3

EvalGenerateJobEmbeddings ==
    /\ runs < MaxEvalOps
    /\ runs' = runs + 1
    /\ \E force \in BOOLEAN : generate_job_embeddings(None, force)

EvalGenerateResumeEmbeddings ==
    /\ runs < MaxEvalOps
    /\ runs' = runs + 1
    /\ \E force \in BOOLEAN : generate_resume_embeddings(None, force)

GenerateEmbeddingsForModel ==
    /\ runs < MaxEvalOps
    /\ runs' = runs + 1
    /\ \E model \in Models, force \in BOOLEAN, ready \in BOOLEAN :
           generate_embeddings_for_model(model, force, ready)

NextEval ==
    \/ EvalGenerateJobEmbeddings
    \/ EvalGenerateResumeEmbeddings
    \/ GenerateEmbeddingsForModel

SpecEval == Init /\ [][NextEval]_vars

\* The rows of a resume whatever model they were computed under.
rows_of_resume_unfiltered(resume_id, model) ==
    {k \in DOMAIN match_results :
        /\ k[1] = resume_id
        /\ match_results[k] # None
        /\ resumes[k[1]] # None
        /\ jobs[k[2]] # None}

\* The rows get_top_matches selects: WHERE mr.resume_id = ? AND
\* mr.embedding_model = ?, JOINed to the resume and to the job.
rows_of_resume(resume_id, model) ==
    {k \in DOMAIN match_results :
        /\ k[1] = resume_id
        /\ k[3] = model
        /\ match_results[k] # None
        /\ resumes[k[1]] # None
        /\ jobs[k[2]] # None}

\* ORDER BY mr.similarity_score DESC: the orders with no lower score before
\* a higher one; rows of one score come in any order.
OrderedByScore(S) ==
    {q \in Orderings(S) :
        \A i, j \in DOMAIN q :
            i < j => ~float_lt(match_results[q[i]][1].similarity_score,
                              match_results[q[j]][1].similarity_score)}

\* LIMIT ?: the first rows; a negative limit is no limit.
Limit(q, limit) == IF limit < 0 THEN q ELSE Prefix(q, limit)

\* The limits a caller passes.
Limits == {0, 1, 2}

\* SimilarityMatcher.get_top_matches(resume_id, limit)
get_top_matches(resume_id, limit) ==
    /\ \E rows \in OrderedByScore(rows_of_resume(resume_id, model_name)) :
           call' = [NoCall EXCEPT
                       !.op = "get_top_matches",
                       !.ids = Some(<<resume_id>>), !.ids2 = Some(<<limit>>),
                       !.results =
                           [i \in 1..Len(Limit(rows, limit)) |->
                               MatchResult(rows[i][1], rows[i][2],
                                           match_results[rows[i]][1].similarity_score)
                                 @@ [adjusted_score |->
                                        match_results[rows[i]][1].adjusted_score]],
                       !.ret = Len(Limit(rows, limit))]
    /\ UNCHANGED <<jobs, resumes, job_embeddings, resume_embeddings,
                   match_results, model_name, client_model, sqlite_sequence,
                   model_ready,
                   env_file, config_file, environ, config, writers, db_lock>>

\* The operations one run on stored results makes.
MaxResultOps == 3

ResultsCalculateSimilarityBatch ==
    /\ runs < MaxResultOps
    /\ runs' = runs + 1
    /\ \E save_results \in BOOLEAN :
           calculate_similarity_batch(None, None, save_results)

ResultsGenerateJobEmbeddings ==
    /\ runs < MaxResultOps
    /\ runs' = runs + 1
    /\ \E force \in BOOLEAN : generate_job_embeddings(None, force)

ResultsGenerateResumeEmbeddings ==
    /\ runs < MaxResultOps
    /\ runs' = runs + 1
    /\ \E force \in BOOLEAN : generate_resume_embeddings(None, force)

ResultsGenerateEmbeddingsForModel ==
    /\ runs < MaxResultOps
    /\ runs' = runs + 1
    /\ generate_embeddings_for_model(model_name, TRUE, TRUE)

GetTopMatches ==
    /\ runs < MaxResultOps
    /\ runs' = runs + 1
    /\ \E resume_id \in ResumeIds, limit \in Limits :
           get_top_matches(resume_id, limit)

\* A matcher and a pipeline built for the model that is not the configured
\* one, on a database where the pipeline has embedded every job and resume
\* under that name, every entity has an embedding under the configured
\* model's name, and a matcher for the configured model has saved its
\* results.
InitResults ==
    /\ jobs = MatchJobs
    /\ resumes = MatchResumes
    /\ model_name = OtherModel
    /\ client_model = get_embedding_client
    /\ \E j1 \in VecsOf(DefaultModel), j2 \in VecsOf(DefaultModel) :
           job_embeddings =
               [k \in JobIds \X Models |->
                   IF k[2] = DefaultModel THEN StoredElsewhere(DefaultModel)
                   ELSE Some([v |-> IF k[1] = 1 THEN j1 ELSE j2, by |-> DefaultModel])]
    /\ resume_embeddings =
           [k \in ResumeIds \X Models |->
               IF k[2] = DefaultModel THEN StoredElsewhere(DefaultModel)
               ELSE Some([v |-> IF k[1] = 1 THEN <<1>> ELSE <<-1>>, by |-> DefaultModel])]
    /\ match_results =
           [k \in ResumeIds \X JobIds \X Models |->
               IF k[3] = DefaultModel
               THEN Some([similarity_score |-> Ratio(1, 1), adjusted_score |-> None])
               ELSE None]
    /\ sqlite_sequence = [jobs |-> MaxId(JobIds), resumes |-> MaxId(ResumeIds)]
    /\ model_ready = Some(TRUE)
    /\ runs = 0
    /\ call = NoCall
    /\ InitConfig
    /\ InitWriters

NextResults ==
    \/ ResultsCalculateSimilarityBatch
    \/ ResultsGenerateJobEmbeddings
    \/ ResultsGenerateResumeEmbeddings
    \/ ResultsGenerateEmbeddingsForModel
    \/ GetTopMatches

SpecResults == InitResults /\ [][NextResults]_vars

(***************************************************************************)
(* The life of a database: rows come and go between generation and         *)
(* matching.                                                               *)
(***************************************************************************)
\* The (external_id, company_id, source) keys callers add jobs under.
ExternalIds == {"a", "b"}

\* The rows of a table.
RowKeys(table) == {k \in DOMAIN table : table[k] # None}

\* DELETE FROM table WHERE <column n> = id
DeleteWhere(table, n, id) ==
    [k \in DOMAIN table |-> IF k[n] = id THEN None ELSE table[k]]

\* DELETE FROM table
DeleteAll(table) == [k \in DOMAIN table |-> None]

\* The rows a statement removed from a table.
Removed(before, after) ==
    Cardinality(RowKeys(before)) - Cardinality(RowKeys(after))

\* SoupBossDB.add_job: UPDATE the row of the key, INSERT one when the UPDATE
\* changed no row.  The id of an inserted row is the next of the sequence.
add_job(external_id, row) ==
    LET found == {j \in RowKeys(jobs) : jobs[j][1].external_id = external_id}
        job_id == IF found # {} THEN CHOOSE j \in found : TRUE
                  ELSE sqlite_sequence.jobs + 1
    IN  /\ found = {} => sqlite_sequence.jobs < MaxId(JobIds)
        /\ jobs' = [jobs EXCEPT
                       ![job_id] = Some(row @@ [external_id |-> external_id])]
        /\ sqlite_sequence' =
               IF found # {} THEN sqlite_sequence
               ELSE [sqlite_sequence EXCEPT !.jobs = job_id]
        /\ call' = [NoCall EXCEPT !.op = "add_job", !.ret = job_id]
        /\ UNCHANGED <<resumes, job_embeddings, resume_embeddings,
                       match_results, model_name, client_model, model_ready,
                   env_file, config_file, environ, config, writers, db_lock>>

\* SoupBossDB.add_resume: INSERT INTO resumes.
add_resume(row) ==
    LET resume_id == sqlite_sequence.resumes + 1
    IN  /\ sqlite_sequence.resumes < MaxId(ResumeIds)
        /\ resumes' = [resumes EXCEPT ![resume_id] = Some(row)]
        /\ sqlite_sequence' = [sqlite_sequence EXCEPT !.resumes = resume_id]
        /\ call' = [NoCall EXCEPT !.op = "add_resume", !.ret = resume_id]
        /\ UNCHANGED <<jobs, job_embeddings, resume_embeddings,
                       match_results, model_name, client_model, model_ready,
                   env_file, config_file, environ, config, writers, db_lock>>

\* delete_resume leaving the match results of the resume in place.
delete_resume_keeping_matches(resume_id) ==
    /\ resume_embeddings' = DeleteWhere(resume_embeddings, 1, resume_id)
    /\ resumes' = [resumes EXCEPT ![resume_id] = None]
    /\ call' = [NoCall EXCEPT
                   !.op = "delete_resume", !.ids = Some(<<resume_id>>),
                   !.ret = IF resumes[resume_id] # None THEN 1 ELSE 0,
                   !.deleted = Removed(resume_embeddings, resume_embeddings')]
    /\ UNCHANGED <<jobs, job_embeddings, match_results, model_name,
                   client_model, sqlite_sequence, model_ready,
                   env_file, config_file, environ, config, writers, db_lock>>

\* SoupBossDB.delete_resume: the embeddings of the resume, its match results
\* and then its row.  It returns whether a row of resumes went (True is 1).
delete_resume(resume_id) ==
    /\ resume_embeddings' = DeleteWhere(resume_embeddings, 1, resume_id)
    /\ match_results' = DeleteWhere(match_results, 1, resume_id)
    /\ resumes' = [resumes EXCEPT ![resume_id] = None]
    /\ call' = [NoCall EXCEPT
                   !.op = "delete_resume", !.ids = Some(<<resume_id>>),
                   !.ret = IF resumes[resume_id] # None THEN 1 ELSE 0,
                   !.deleted = Removed(resume_embeddings, resume_embeddings')
                                 + Removed(match_results, match_results')]
    /\ UNCHANGED <<jobs, job_embeddings, model_name, client_model,
                   sqlite_sequence, model_ready,
                   env_file, config_file, environ, config, writers, db_lock>>

\* SoupBossDB.clear_jobs
clear_jobs ==
    /\ job_embeddings' = DeleteAll(job_embeddings)
    /\ match_results' = DeleteAll(match_results)
    /\ jobs' = DeleteAll(jobs)
    /\ call' = [NoCall EXCEPT
                   !.op = "clear_jobs",
                   !.deleted = Removed(job_embeddings, job_embeddings')
                                 + Removed(match_results, match_results')]
    /\ UNCHANGED <<resumes, resume_embeddings, model_name, client_model,
                   sqlite_sequence, model_ready,
                   env_file, config_file, environ, config, writers, db_lock>>

\* SoupBossDB.clear_resumes
clear_resumes ==
    /\ resume_embeddings' = DeleteAll(resume_embeddings)
    /\ match_results' = DeleteAll(match_results)
    /\ resumes' = DeleteAll(resumes)
    /\ call' = [NoCall EXCEPT
                   !.op = "clear_resumes",
                   !.deleted = Removed(resume_embeddings, resume_embeddings')
                                 + Removed(match_results, match_results')]
    /\ UNCHANGED <<jobs, job_embeddings, model_name, client_model,
                   sqlite_sequence, model_ready,
                   env_file, config_file, environ, config, writers, db_lock>>

\* SoupBossDB.clear_embeddings
clear_embeddings ==
    /\ job_embeddings' = DeleteAll(job_embeddings)
    /\ resume_embeddings' = DeleteAll(resume_embeddings)
    /\ match_results' = DeleteAll(match_results)
    /\ call' = [NoCall EXCEPT
                   !.op = "clear_embeddings",
                   !.deleted = Removed(job_embeddings, job_embeddings')
                                 + Removed(resume_embeddings, resume_embeddings')
                                 + Removed(match_results, match_results')]
    /\ UNCHANGED <<jobs, resumes, model_name, client_model,
                   sqlite_sequence, model_ready,
                   env_file, config_file, environ, config, writers, db_lock>>

\* SoupBossDB.reset_database: every table emptied; the id sequences stay.
reset_database ==
    /\ match_results' = DeleteAll(match_results)
    /\ job_embeddings' = DeleteAll(job_embeddings)
    /\ resume_embeddings' = DeleteAll(resume_embeddings)
    /\ jobs' = DeleteAll(jobs)
    /\ resumes' = DeleteAll(resumes)
    /\ call' = [NoCall EXCEPT
                   !.op = "reset_database",
                   !.deleted = Removed(job_embeddings, job_embeddings')
                                 + Removed(resume_embeddings, resume_embeddings')
                                 + Removed(match_results, match_results')]
    /\ UNCHANGED <<model_name, client_model, sqlite_sequence, model_ready,
                   env_file, config_file, environ, config, writers, db_lock>>

\* The operations one life of a database makes.
MaxLifeOps == 6

AddJob ==
    /\ runs < MaxLifeOps
    /\ runs' = runs + 1
    /\ \E external_id \in ExternalIds, row \in {FullJob, TitleOnlyJob} :
           add_job(external_id, row)

AddResume ==
    /\ runs < MaxLifeOps
    /\ runs' = runs + 1
    /\ add_resume(TextResume)

DeleteResume ==
    /\ runs < MaxLifeOps
    /\ runs' = runs + 1
    /\ \E resume_id \in ResumeIds : delete_resume(resume_id)

ClearJobs ==
    /\ runs < MaxLifeOps
    /\ runs' = runs + 1
    /\ clear_jobs

ClearResumes ==
    /\ runs < MaxLifeOps
    /\ runs' = runs + 1
    /\ clear_resumes

ClearEmbeddings ==
    /\ runs < MaxLifeOps
    /\ runs' = runs + 1
    /\ clear_embeddings

ResetDatabase ==
    /\ runs < MaxLifeOps
    /\ runs' = runs + 1
    /\ reset_database

LifeGenerateJobEmbeddings ==
    /\ runs < MaxLifeOps
    /\ runs' = runs + 1
    /\ \E force \in BOOLEAN : generate_job_embeddings(None, force)

LifeGenerateResumeEmbeddings ==
    /\ runs < MaxLifeOps
    /\ runs' = runs + 1
    /\ \E force \in BOOLEAN : generate_resume_embeddings(None, force)

LifeCalculateSimilarityBatch ==
    /\ runs < MaxLifeOps
    /\ runs' = runs + 1
    /\ calculate_similarity_batch(None, None, TRUE)

\* A database just created: every table empty, no id given out.
InitLife ==
    /\ jobs = [j \in JobIds |-> None]
    /\ resumes = [r \in ResumeIds |-> None]
    /\ job_embeddings = [k \in JobIds \X Models |-> None]
    /\ resume_embeddings = [k \in ResumeIds \X Models |-> None]
    /\ match_results = [k \in ResumeIds \X JobIds \X Models |-> None]
    /\ model_name = DefaultModel
    /\ client_model = get_embedding_client
    /\ sqlite_sequence = [jobs |-> 0, resumes |-> 0]
    /\ model_ready = Some(TRUE)
    /\ runs = 0
    /\ call = NoCall
    /\ InitConfig
    /\ InitWriters

NextLife ==
    \/ AddJob
    \/ AddResume
    \/ DeleteResume
    \/ ClearJobs
    \/ ClearResumes
    \/ ClearEmbeddings
    \/ ResetDatabase
    \/ LifeGenerateJobEmbeddings
    \/ LifeGenerateResumeEmbeddings
    \/ LifeCalculateSimilarityBatch

SpecLife == InitLife /\ [][NextLife]_vars

(***************************************************************************)
(* One OllamaEmbeddingClient and the calls made on it.                     *)
(***************************************************************************)
\* A model name as client.list() reports it: the name with or without the
\* tag "latest".
Untagged(m) == <<m, "">>
Latest(m) == <<m, "latest">>

\* One answer of client.list(): an exception, or the names of the models
\* the service holds.
ListAnswers(m) ==
    {[kind |-> "error", names |-> {}]}
        \cup {[kind |-> "models", names |-> n] :
                 n \in {{}, {Untagged(m)}, {Latest(m)},
                        {Latest(IF m = DefaultModel THEN OtherModel ELSE DefaultModel)}}}

\* One outcome of client.pull(model).
PullAnswers == {"ok", "error"}

\* One answer of client.embeddings(model, prompt): an exception (connection
\* error, timeout), a response without a vector, or a vector of the model.
ClientAnswers(m) == ServiceAnswers(m) \cup {[kind |-> "empty", v |-> <<>>]}

\* The answers the texts of a batch get: an exception or a vector.
BatchAnswers(m) ==
    {[kind |-> "error", v |-> <<>>],
     [kind |-> "vector", v |-> IF m = DefaultModel THEN <<1>> ELSE <<1, 1>>]}

\* ensure_model_ready probing the service whatever it found before.
ensure_model_ready_uncached(cached, m, listed, pulled) ==
    IF listed.kind = "error"
    THEN [ret |-> FALSE, cache |-> Some(FALSE), remote |-> <<"list">>]
    ELSE IF Untagged(m) \in listed.names \/ Latest(m) \in listed.names
    THEN [ret |-> TRUE, cache |-> Some(TRUE), remote |-> <<"list">>]
    ELSE IF pulled = "ok"
    THEN [ret |-> TRUE, cache |-> Some(TRUE), remote |-> <<"list", "pull">>]
    ELSE [ret |-> FALSE, cache |-> Some(FALSE), remote |-> <<"list", "pull">>]

\* OllamaEmbeddingClient.ensure_model_ready on a client of model m whose
\* _model_ready is `cached`, when the service would answer client.list()
\* with `listed` and client.pull() with `pulled`: what it returns, the
\* _model_ready it leaves and the remote calls it makes.
ensure_model_ready(cached, m, listed, pulled) ==
    IF cached # None
    THEN [ret |-> cached[1], cache |-> cached, remote |-> <<>>]
    ELSE IF listed.kind = "error"
    THEN [ret |-> FALSE, cache |-> Some(FALSE), remote |-> <<"list">>]
    ELSE IF Untagged(m) \in listed.names \/ Latest(m) \in listed.names
    THEN [ret |-> TRUE, cache |-> Some(TRUE), remote |-> <<"list">>]
    ELSE IF pulled = "ok"
    THEN [ret |-> TRUE, cache |-> Some(TRUE), remote |-> <<"list", "pull">>]
    ELSE [ret |-> FALSE, cache |-> Some(FALSE), remote |-> <<"list", "pull">>]

\* embedding_request letting the exception of client.embeddings through.
embedding_request_uncaught(m, ready, text, ans) ==
    [ret |-> generate_embedding(m, ready, text, ans),
     raised |-> IF ready /\ Strip(clean_text(text)) # <<>> /\ ans.kind = "error"
                THEN "Exception" ELSE "",
     remote |-> IF ready /\ Strip(clean_text(text)) # <<>>
                THEN <<"embeddings">> ELSE <<>>]

\* OllamaEmbeddingClient.generate_embedding as a call: what it returns, the
\* exception that leaves it (none: `except Exception` takes what _clean_text
\* and client.embeddings raise) and the remote calls it makes after
\* ensure_model_ready.
embedding_request(m, ready, text, ans) ==
    [ret |-> generate_embedding(m, ready, text, ans),
     raised |-> "",
     remote |-> IF ready /\ Strip(clean_text(text)) # <<>>
                THEN <<"embeddings">> ELSE <<>>]

RECURSIVE batch_remote(_, _, _, _)
\* The remote calls of the loop of generate_embeddings_batch, text by text.
batch_remote(m, ready, texts, answers) ==
    IF texts = <<>> \/ ~ready THEN <<>>
    ELSE embedding_request(m, ready, Head(texts), Head(answers)).remote
            \o batch_remote(m, ready, Tail(texts), Tail(answers))

\* The texts callers pass: none, empty, blank, and with words.
Texts == {None, Some(<<>>), Some(<<" ", "\n">>), Some(<<"x">>), Some(<<" ", "x", " ">>)}

\* The lists of texts callers pass to generate_embeddings_batch.
MaxBatch == 3
BatchTexts ==
    UNION {[1..n -> {Some(<<"x">>), Some(<<" ">>)}] : n \in 0..MaxBatch}

\* The call a client operation leaves: `first` is what the first
\* ensure_model_ready on the client returned, `again` whether _model_ready
\* was set when the call began, `listed` the answer client.list() would have
\* given.
ClientCall(op, texts, answers, listed, probe, ret, raised, remote) ==
    [NoCall EXCEPT
        !.op = op, !.submitted = texts, !.answers = answers,
        !.flag = probe.ret, !.returned = Some(ret), !.raised = raised,
        !.remote = probe.remote \o remote,
        !.first = IF call.first # None THEN call.first ELSE Some(probe.ret),
        !.again = IF model_ready # None THEN "yes" ELSE "no",
        !.listed = listed.kind]

ClientFrame ==
    UNCHANGED <<jobs, resumes, job_embeddings, resume_embeddings,
                match_results, model_name, client_model, sqlite_sequence, runs,
                env_file, config_file, environ, config, writers, db_lock>>

\* client.ensure_model_ready()
EnsureModelReady ==
    \E listed \in ListAnswers(client_model), pulled \in PullAnswers :
    \E probe \in {ensure_model_ready(model_ready, client_model, listed, pulled)} :
        /\ model_ready' = probe.cache
        /\ call' = ClientCall("ensure_model_ready", <<>>, <<>>, listed, probe,
                              probe.ret, "", <<>>)
        /\ ClientFrame

\* client.generate_embedding(text)
GenerateEmbedding ==
    \E listed \in ListAnswers(client_model), pulled \in PullAnswers :
    \E text \in Texts, ans \in ClientAnswers(client_model) :
    \E probe \in {ensure_model_ready(model_ready, client_model, listed, pulled)} :
    \E req \in {embedding_request(client_model, probe.ret, text, ans)} :
        /\ model_ready' = probe.cache
        /\ call' = ClientCall("generate_embedding", <<text>>, <<ans>>, listed,
                              probe, req.ret, req.raised, req.remote)
        /\ ClientFrame

\* client.generate_embeddings_batch(texts): the texts are embedded one by
\* one on the same client, whose _model_ready is set by then.
GenerateEmbeddingsBatch ==
    \E listed \in ListAnswers(client_model), pulled \in PullAnswers :
    \E texts \in BatchTexts :
    \E answers \in [1..Len(texts) -> BatchAnswers(client_model)] :
    \E probe \in {ensure_model_ready(model_ready, client_model, listed, pulled)} :
        /\ model_ready' = probe.cache
        /\ call' = ClientCall("generate_embeddings_batch", texts, answers,
                              listed, probe,
                              generate_embeddings_batch(client_model, probe.ret,
                                                        texts, answers),
                              "",
                              batch_remote(client_model, probe.ret, texts, answers))
        /\ ClientFrame

\* OllamaEmbeddingClient.__init__: nothing known about the model yet.
InitClient ==
    /\ jobs = [j \in JobIds |-> None]
    /\ resumes = [r \in ResumeIds |-> None]
    /\ job_embeddings = [k \in JobIds \X Models |-> None]
    /\ resume_embeddings = [k \in ResumeIds \X Models |-> None]
    /\ match_results = [k \in ResumeIds \X JobIds \X Models |-> None]
    /\ model_name \in Models
    /\ client_model = model_name
    /\ sqlite_sequence = [jobs |-> 0, resumes |-> 0]
    /\ model_ready = None
    /\ runs = 0
    /\ call = NoCall
    /\ InitConfig
    /\ InitWriters

NextClient ==
    \/ EnsureModelReady
    \/ GenerateEmbedding
    \/ GenerateEmbeddingsBatch

SpecClient == InitClient /\ [][NextClient]_vars

(***************************************************************************)
(* Embedding statistics of the pipeline.                                   *)
(***************************************************************************)
\* max(a, b)
Max(a, b) == IF a >= b THEN a ELSE b

\* round(num / den * 100, 1) for num >= 0 and den > 0, in tenths of a
\* percent (40.0 is 400): the nearest tenth, the even one of two that are
\* equally near.
RoundPercent(num, den) ==
    LET q == (num * 1000) \div den
        r == (num * 1000) % den
    IN  IF 2 * r > den \/ (2 * r = den /\ q % 2 = 1) THEN q + 1 ELSE q

\* SELECT COUNT(*) FROM table
CountRows(table) == Cardinality({k \in DOMAIN table : table[k] # None})

\* SELECT COUNT(*) FROM embeddings WHERE embedding_model = ?
CountModelRows(embeddings, model) ==
    Cardinality({k \in DOMAIN embeddings : k[2] = model /\ embeddings[k] # None})

\* EmbeddingPipeline.get_embedding_stats, one entity kind: the rows of the
\* table, the embeddings stored under the model, and their ratio.
kind_stats(rows, embeddings, model) ==
    LET total == CountRows(rows)
        with_embeddings == CountModelRows(embeddings, model)
    IN  [total |-> total, with_embeddings |-> with_embeddings,
         coverage_percent |-> RoundPercent(with_embeddings, Max(total, 1))]

\* EmbeddingPipeline.get_embedding_stats()
get_embedding_stats ==
    /\ call' = [NoCall EXCEPT
                   !.op = "get_embedding_stats",
                   !.returned =
                       Some([model |-> model_name,
                             jobs |-> kind_stats(jobs, job_embeddings, model_name),
                             resumes |-> kind_stats(resumes, resume_embeddings,
                                                    model_name)])]
    /\ UNCHANGED <<jobs, resumes, job_embeddings, resume_embeddings,
                   match_results, model_name, client_model, sqlite_sequence,
                   model_ready,
                   env_file, config_file, environ, config, writers, db_lock>>

GetEmbeddingStats ==
    /\ get_embedding_stats
    /\ UNCHANGED runs

NextStats ==
    \/ GenerateJobEmbeddings
    \/ GenerateResumeEmbeddings
    \/ GetEmbeddingStats

SpecStats == Init /\ [][NextStats]_vars

(***************************************************************************)
(* Match results that carry an adjusted score.                             *)
(***************************************************************************)
\* SoupBossDB.save_match_result called with an adjusted_score: the same
\* INSERT OR REPLACE, every column of the row taken from the arguments.
save_adjusted_match_result(table, resume_id, job_id, similarity_score, model, adjusted_score) ==
    IF similarity_score.nan
    THEN [raised |-> "IntegrityError", table |-> table]
    ELSE [raised |-> "",
          table |-> [table EXCEPT ![<<resume_id, job_id, model>>] =
                        Some([similarity_score |-> similarity_score,
                              adjusted_score |-> adjusted_score])]]

\* The adjusted scores a caller stores.
AdjustedScores == {Some(Ratio(1, 2)), Some(Zero)}

\* The operations one run on adjusted results makes.
MaxAdjustOps == 3

\* db.save_match_result(resume_id, job_id, similarity_score, model, adjusted_score)
SaveMatchResult ==
    /\ runs < MaxAdjustOps
    /\ runs' = runs + 1
    /\ \E resume_id \in ResumeIds, job_id \in JobIds, adjusted_score \in AdjustedScores :
       \E out \in {save_adjusted_match_result(match_results, resume_id, job_id,
                                              Ratio(1, 4), model_name,
                                              adjusted_score)} :
           /\ match_results' = out.table
           /\ call' = [NoCall EXCEPT
                          !.op = "save_match_result",
                          !.ids = Some(<<resume_id>>), !.ids2 = Some(<<job_id>>),
                          !.raised = out.raised]
    /\ UNCHANGED <<jobs, resumes, job_embeddings, resume_embeddings,
                   model_name, client_model, sqlite_sequence, model_ready,
                   env_file, config_file, environ, config, writers, db_lock>>

AdjustCalculateSimilarityBatch ==
    /\ runs < MaxAdjustOps
    /\ runs' = runs + 1
    /\ \E save_results \in BOOLEAN :
           calculate_similarity_batch(None, None, save_results)

NextAdjust ==
    \/ SaveMatchResult
    \/ AdjustCalculateSimilarityBatch

SpecAdjust == InitResults /\ [][NextAdjust]_vars

(***************************************************************************)
(* The calls made on one ConfigManager.                                    *)
(***************************************************************************)
\* The values callers give to set_env_var, and to set.
EnvValues == {"mxbai-embed-large", "8080", " 8080"}
SetValues == {Str("x"), Int_("9")}

\* Everything but the configuration stays as it is.
ConfigFrame ==
    UNCHANGED <<jobs, resumes, job_embeddings, resume_embeddings,
                match_results, model_name, client_model, sqlite_sequence,
                model_ready, writers, db_lock>>

ConfigCall(op, key, ret) ==
    [NoCall EXCEPT !.op = op, !.ids = Some(<<key>>), !.returned = Some(ret)]

\* The .env file after dotenv.set_key(path, key, value): created when it
\* does not exist, the line of the key written or replaced.
set_key(file, key, value) ==
    Some([(IF file = None THEN [v \in EnvVars |-> None] ELSE file[1])
             EXCEPT ![key] = Some(DotenvLine(value))])

\* The .env file after dotenv.unset_key(path, key): the line of the key
\* removed.
unset_key(file, key) == Some([file[1] EXCEPT ![key] = None])

\* ConfigManager.set_env_var(key, value); written is whether set_key wrote
\* the file (it raises when it cannot).
set_env_var(key, value, written) ==
    IF written
    THEN \E loaded \in {load_config(set_key(env_file, key, value), config_file,
                                    environ)} :
             /\ env_file' = set_key(env_file, key, value)
             /\ config' = loaded.config
             /\ environ' = loaded.environ
             /\ call' = ConfigCall("set_env_var", key, TRUE)
             /\ UNCHANGED config_file
    ELSE /\ call' = ConfigCall("set_env_var", key, FALSE)
         /\ UNCHANGED <<env_file, config_file, environ, config>>

\* ConfigManager.unset_env_var(key)
unset_env_var(key, written) ==
    IF ~written
    THEN /\ call' = ConfigCall("unset_env_var", key, FALSE)
         /\ UNCHANGED <<env_file, config_file, environ, config>>
    ELSE IF env_file = None
    THEN /\ call' = ConfigCall("unset_env_var", key, TRUE)
         /\ UNCHANGED <<env_file, config_file, environ, config>>
    ELSE \E loaded \in {load_config(unset_key(env_file, key), config_file,
                                    environ)} :
             /\ env_file' = unset_key(env_file, key)
             /\ config' = loaded.config
             /\ environ' = loaded.environ
             /\ call' = ConfigCall("unset_env_var", key, TRUE)
             /\ UNCHANGED config_file

\* ConfigManager.set("ollama", key, value): the setting changed in memory
\* and the whole configuration saved to the JSON file.
set_config(key, value, written) ==
    /\ config' = [config EXCEPT ![key] = value]
    /\ config_file' = IF written THEN Some(config') ELSE config_file
    /\ call' = ConfigCall("set", key, written)
    /\ UNCHANGED <<env_file, environ>>

\* A new process: ConfigManager.__init__ on the files as they are.
new_config_manager ==
    \E loaded \in {load_config(env_file, config_file, StartEnviron)} :
        /\ config' = loaded.config
        /\ environ' = loaded.environ
        /\ call' = ConfigCall("__init__", "", TRUE)
        /\ UNCHANGED <<env_file, config_file>>

\* The calls one run on the configuration makes.
MaxConfigOps == 4

SetEnvVar ==
    /\ runs < MaxConfigOps
    /\ runs' = runs + 1
    /\ \E key \in EnvVars, value \in EnvValues, written \in BOOLEAN :
           set_env_var(key, value, written)
    /\ ConfigFrame

UnsetEnvVar ==
    /\ runs < MaxConfigOps
    /\ runs' = runs + 1
    /\ \E key \in EnvVars, written \in BOOLEAN : unset_env_var(key, written)
    /\ ConfigFrame

SetConfig ==
    /\ runs < MaxConfigOps
    /\ runs' = runs + 1
    /\ \E key \in DOMAIN DEFAULT_CONFIG, value \in SetValues, written \in BOOLEAN :
           set_config(key, value, written)
    /\ ConfigFrame

NewConfigManager ==
    /\ runs < MaxConfigOps
    /\ runs' = runs + 1
    /\ new_config_manager
    /\ ConfigFrame

NextConfig ==
    \/ SetEnvVar
    \/ UnsetEnvVar
    \/ SetConfig
    \/ NewConfigManager

SpecConfig == InitLife /\ [][NextConfig]_vars

(***************************************************************************)
(* Two embedding runs side by side, each in its own process with its own   *)
(* connection to the database file.  sqlite3.connect opens a transaction   *)
(* at the INSERT and ends it at commit(); the INSERT takes SQLite's write  *)
(* lock or raises "database is locked" once the busy timeout has passed;   *)
(* commit() raises the same while another connection reads inside an open  *)
(* transaction.  generate_job_embeddings catches both with its             *)
(* `except Exception` and goes on with the next job.                       *)
(***************************************************************************)
Writers == {1, 2}

\* A connection between runs, nothing open.
IdleWriter ==
    [pc |-> "idle", todo |-> <<>>, tx |-> FALSE, shared |-> FALSE,
     pending |-> <<>>, done |-> <<>>]

RECURSIVE commit_writes_appending(_, _)
\* commit_writes adding each row beside the one stored.
commit_writes_appending(table, pending) ==
    IF pending = <<>> THEN table
    ELSE commit_writes_appending(
             [table EXCEPT ![<<Head(pending).id, Head(pending).model>>] =
                               @ \o Head(pending).embedding],
             Tail(pending))

RECURSIVE commit_writes(_, _)
\* self.conn.commit(): the INSERT OR REPLACE statements of the transaction
\* reach the table together, in the order they were executed.
commit_writes(table, pending) ==
    IF pending = <<>> THEN table
    ELSE commit_writes(save_embedding(table, Head(pending).id,
                                      Head(pending).model,
                                      Head(pending).embedding),
                       Tail(pending))

\* What a SELECT on the connection of w sees: the committed rows and the
\* writes of its own open transaction.
ConnectionView(w) == commit_writes(job_embeddings, writers[w].pending)

RaceFrame ==
    UNCHANGED <<jobs, resumes, resume_embeddings, match_results, model_name,
                client_model, sqlite_sequence, model_ready, env_file,
                config_file, environ, config>>

RaceCall(op, w, ok) ==
    [NoCall EXCEPT !.op = op, !.first = Some(w), !.returned = Some(ok)]

\* generate_job_embeddings up to its loop: the jobs selected and filtered
\* by the SELECTs of the connection.  Inside an open transaction the
\* SELECTs leave the connection holding a read lock.
start_run(w, job_ids, force_regenerate) ==
    \E jobs_to_process \in
            {rows_to_process(select_rows(jobs, job_ids), ConnectionView(w),
                             model_name, force_regenerate)} :
        /\ writers' = [writers EXCEPT ![w] =
               [@ EXCEPT !.pc = IF jobs_to_process = <<>> THEN "idle" ELSE "loop",
                         !.todo = jobs_to_process,
                         !.shared = @ \/ writers[w].tx,
                         !.done = <<>>]]
        /\ call' = RaceCall("generate_job_embeddings", w, TRUE)
        /\ UNCHANGED <<job_embeddings, db_lock>>

\* The writer after the job at the head of its list.
NextJob(wr) ==
    [wr EXCEPT !.todo = Tail(@),
               !.pc = IF Len(wr.todo) = 1 THEN "idle" ELSE "loop"]

\* One pass of the loop up to cursor.execute of save_job_embedding: the
\* embedding asked for, then the INSERT OR REPLACE executed.
execute_insert(w, answer) ==
    LET wr == writers[w]
        job_id == Head(wr.todo)
        embeddings ==
            generate_embeddings_batch(client_model, TRUE,
                <<prepare_job_text(jobs[job_id][1])>>, <<answer>>)
    IN  IF embeddings[1] = None
        THEN \* no embedding: save_job_embedding raises before any statement
             /\ writers' = [writers EXCEPT ![w] = NextJob(wr)]
             /\ call' = RaceCall("save_job_embedding", w, FALSE)
             /\ UNCHANGED <<job_embeddings, db_lock>>
        ELSE IF db_lock \in {None, Some(w)}
        THEN /\ writers' = [writers EXCEPT ![w] =
                    [wr EXCEPT !.pc = "commit", !.tx = TRUE,
                               !.pending = Append(@,
                                   [id |-> job_id, model |-> model_name,
                                    embedding |-> embeddings[1]])]]
             /\ db_lock' = Some(w)
             /\ call' = RaceCall("execute", w, TRUE)
             /\ UNCHANGED job_embeddings
        ELSE \* database is locked: the transaction stays open, without a lock
             /\ writers' = [writers EXCEPT ![w] = [NextJob(wr) EXCEPT !.tx = TRUE]]
             /\ call' = RaceCall("execute", w, FALSE)
             /\ UNCHANGED <<job_embeddings, db_lock>>

\* self.conn.commit() of save_job_embedding.
commit(w) ==
    LET wr == writers[w]
    IN  IF \E o \in Writers \ {w} : writers[o].shared
        THEN \* database is locked: the transaction and its lock stay
             /\ writers' = [writers EXCEPT ![w] = NextJob(wr)]
             /\ call' = RaceCall("commit", w, FALSE)
             /\ UNCHANGED <<job_embeddings, db_lock>>
        ELSE /\ job_embeddings' = commit_writes(job_embeddings, wr.pending)
             /\ writers' = [writers EXCEPT ![w] =
                    [NextJob(wr) EXCEPT !.tx = FALSE, !.shared = FALSE,
                                        !.pending = <<>>,
                                        !.done = @ \o wr.pending]]
             /\ db_lock' = None
             /\ call' = RaceCall("commit", w, TRUE)

\* SoupBossDB.close() at the end of the process, and the connection of the
\* process that follows: an open transaction is rolled back.
close(w) ==
    /\ writers' = [writers EXCEPT ![w] = IdleWriter]
    /\ db_lock' = IF db_lock = Some(w) THEN None ELSE db_lock
    /\ call' = RaceCall("close", w, TRUE)
    /\ UNCHANGED job_embeddings

\* The runs started in one race.
MaxRaceRuns == 3

StartRun ==
    /\ runs < MaxRaceRuns
    /\ runs' = runs + 1
    /\ \E w \in Writers, ids \in IdArgs, force \in BOOLEAN :
           /\ writers[w].pc = "idle"
           /\ start_run(w, ids, force)
    /\ RaceFrame

ExecuteInsert ==
    /\ \E w \in Writers, answer \in ServiceAnswers(client_model) :
           /\ writers[w].pc = "loop"
           /\ execute_insert(w, answer)
    /\ UNCHANGED runs
    /\ RaceFrame

Commit ==
    /\ \E w \in Writers :
           /\ writers[w].pc = "commit"
           /\ commit(w)
    /\ UNCHANGED runs
    /\ RaceFrame

Close ==
    /\ \E w \in Writers :
           /\ writers[w].pc = "idle"
           /\ writers[w] # IdleWriter
           /\ close(w)
    /\ UNCHANGED runs
    /\ RaceFrame

\* Two processes opened on a database that holds jobs and no embeddings.
InitRace ==
    /\ \E d \in Datasets : jobs = d.jobs /\ resumes = d.resumes
    /\ job_embeddings = [k \in JobIds \X Models |-> None]
    /\ resume_embeddings = [k \in ResumeIds \X Models |-> None]
    /\ match_results = [k \in ResumeIds \X JobIds \X Models |-> None]
    /\ model_name \in Models
    /\ client_model = get_embedding_client
    /\ sqlite_sequence = [jobs |-> MaxId(JobIds), resumes |-> MaxId(ResumeIds)]
    /\ model_ready = Some(TRUE)
    /\ runs = 0
    /\ call = NoCall
    /\ InitConfig
    /\ writers = [w \in Writers |-> IdleWriter]
    /\ db_lock = None

NextRace ==
    \/ StartRun
    \/ ExecuteInsert
    \/ Commit
    \/ Close

SpecRace == InitRace /\ [][NextRace]_vars

(***************************************************************************)
(* EmbeddingModelEvaluator.compare_models and the metrics of a model.      *)
(***************************************************************************)
\* `rn <= 10` of _calculate_diversity.
TopRank == 10

\* The seconds one embedding call of a model is timed at, and what the
\* service does during one evaluation: whether ensure_model_ready finds the
\* model, the answer the text of entity 1 and of entity 2 gets, and the time
\* each call takes.  A model that is not found is asked nothing.
EmbedSeconds(model) == IF model = DefaultModel THEN 1 ELSE 2

EvaluationInputs(model) ==
    [ready : {TRUE},
     answers : [JobIds \cup ResumeIds -> BatchAnswers(model)],
     duration : {EmbedSeconds(model)}]
      \cup {[ready |-> FALSE,
              answers |-> [e \in JobIds \cup ResumeIds |->
                              [kind |-> "error", v |-> <<>>]],
              duration |-> EmbedSeconds(model)]}

\* The rows of match_results joined to job_embeddings and resume_embeddings
\* WHERE je.embedding_model = ? AND re.embedding_model = ?, for one resume:
\* the model of the match_results row is not looked at.
diversity_rows(results, j_embeddings, r_embeddings, model, resume_id) ==
    {k \in DOMAIN results :
        /\ results[k] # None
        /\ k[1] = resume_id
        /\ j_embeddings[<<k[2], model>>] # None
        /\ r_embeddings[<<k[1], model>>] # None}

\* The rows ROW_NUMBER() ... ORDER BY similarity_score DESC numbers up to
\* TopRank: all of them when there are no more than TopRank, otherwise
\* TopRank rows that none of the others scores above.
top_rows(results, rows) ==
    IF Cardinality(rows) <= TopRank THEN rows
    ELSE CHOOSE T \in SUBSET rows :
             /\ Cardinality(T) = TopRank
             /\ \A t \in T, r \in rows \ T :
                    ~float_lt(results[t][1].similarity_score,
                              results[r][1].similarity_score)

\* EmbeddingModelEvaluator._calculate_diversity, as a percentage.
calculate_diversity(results, j_embeddings, r_embeddings, model) ==
    LET top == UNION {top_rows(results,
                               diversity_rows(results, j_embeddings,
                                              r_embeddings, model, r)) :
                      r \in ResumeIds}
        unique_jobs_in_top_matches == Cardinality({k[2] : k \in top})
        total_jobs == CountModelRows(j_embeddings, model)
    IN  Ratio(unique_jobs_in_top_matches * 100, Max(1, total_jobs))

\* SELECT COUNT(*) FROM table WHERE content_text IS NOT NULL
CountWithContent(rows) ==
    Cardinality({k \in DOMAIN rows :
                    rows[k] # None /\ rows[k][1].content_text # None})

\* (count / possible * 100) if possible > 0 else 0
coverage_of(count, possible) ==
    IF possible > 0 THEN Ratio(count * 100, possible) ELSE Zero

\* (x + y) / 2
half_sum(x, y) == Ratio(x.num * y.den + y.num * x.den, 2 * x.den * y.den)

\* _calculate_sample_similarities raises when np.dot meets a resume
\* embedding and a job embedding of the model that differ in length.
sample_similarities_raise(j_embeddings, r_embeddings, model) ==
    \E j \in RowKeys(jobs), r \in RowKeys(resumes) :
        /\ j_embeddings[<<j, model>>] # None
        /\ r_embeddings[<<r, model>>] # None
        /\ Len(j_embeddings[<<j, model>>][1].v) # Len(r_embeddings[<<r, model>>][1].v)

\* EmbeddingModelEvaluator._calculate_model_metrics, without the scores of
\* the sample: the ModelEvaluation of the model on the tables as they are.
calculate_model_metrics(j_embeddings, r_embeddings, model) ==
    [model_name |-> model,
     total_jobs |-> CountModelRows(j_embeddings, model),
     total_resumes |-> CountModelRows(r_embeddings, model),
     avg_embedding_time |-> Zero,
     coverage_percentage |->
         half_sum(coverage_of(CountModelRows(j_embeddings, model),
                              CountWithContent(jobs)),
                  coverage_of(CountModelRows(r_embeddings, model),
                              CountWithContent(resumes))),
     diversity_score |->
         calculate_diversity(match_results, j_embeddings, r_embeddings, model)]

\* generate_embeddings_for_model as compare_models calls it: the exception
\* it raises ("" when it returns), the embeddings it leaves and the
\* ModelEvaluation it returns.
evaluate_model(j_embeddings, r_embeddings, model, force, inp) ==
    IF ~inp.ready
    THEN [raised |-> "RuntimeError", job_embeddings |-> j_embeddings,
          resume_embeddings |-> r_embeddings, evaluation |-> None]
    ELSE LET jobs_to_process ==
                 rows_to_evaluate(jobs, j_embeddings, model, force, MaxId(JobIds))
             resumes_to_process ==
                 rows_to_evaluate(resumes, r_embeddings, model, force,
                                  MaxId(ResumeIds))
             j_after ==
                 evaluate_loop(jobs_to_process, jobs,
                               [i \in 1..Len(jobs_to_process) |->
                                   inp.answers[jobs_to_process[i]]],
                               1, model, j_embeddings)
             r_after ==
                 evaluate_loop(resumes_to_process, resumes,
                               [i \in 1..Len(resumes_to_process) |->
                                   inp.answers[resumes_to_process[i]]],
                               1, model, r_embeddings)
         IN  IF sample_similarities_raise(j_after, r_after, model)
             THEN [raised |-> "ValueError", job_embeddings |-> j_after,
                   resume_embeddings |-> r_after, evaluation |-> None]
             ELSE [raised |-> "", job_embeddings |-> j_after,
                   resume_embeddings |-> r_after,
                   evaluation |->
                       Some([calculate_model_metrics(j_after, r_after, model)
                               EXCEPT !.avg_embedding_time =
                                   IF jobs_to_process # <<>> \/ resumes_to_process # <<>>
                                   THEN Ratio(inp.duration, 1)
                                   ELSE Zero])]

RECURSIVE compare_loop_aborting(_, _, _, _, _)
\* compare_loop leaving the loop at the first model that raises.
compare_loop_aborting(models, inputs, i, force, acc) ==
    IF i > Len(models) THEN acc
    ELSE LET out == evaluate_model(acc.job_embeddings, acc.resume_embeddings,
                                   models[i], force, inputs[i])
         IN  IF out.raised # ""
             THEN [acc EXCEPT !.job_embeddings = out.job_embeddings,
                              !.resume_embeddings = out.resume_embeddings,
                              !.failed = Append(@, i)]
             ELSE compare_loop_aborting(models, inputs, i + 1, force,
                      [job_embeddings |-> out.job_embeddings,
                       resume_embeddings |-> out.resume_embeddings,
                       evaluations |-> acc.evaluations \o out.evaluation,
                       failed |-> acc.failed])

RECURSIVE compare_loop(_, _, _, _, _)
\* The `for model_name in models_to_compare:` loop of compare_models: the
\* evaluation of a model is appended, an exception is caught and the loop
\* goes on.  failed lists the positions whose evaluation raised.
compare_loop(models, inputs, i, force, acc) ==
    IF i > Len(models) THEN acc
    ELSE LET out == evaluate_model(acc.job_embeddings, acc.resume_embeddings,
                                   models[i], force, inputs[i])
         IN  compare_loop(models, inputs, i + 1, force,
                 [job_embeddings |-> out.job_embeddings,
                  resume_embeddings |-> out.resume_embeddings,
                  evaluations |-> acc.evaluations \o out.evaluation,
                  failed |-> IF out.raised # "" THEN Append(acc.failed, i)
                             ELSE acc.failed])

\* max(evaluations, key=lambda x: x.diversity_score): the first of the
\* evaluations that none of the others is above.
max_by_diversity(evaluations) ==
    evaluations[CHOOSE i \in DOMAIN evaluations :
        /\ \A j \in DOMAIN evaluations : j < i =>
               float_lt(evaluations[j].diversity_score,
                        evaluations[i].diversity_score)
        /\ \A j \in DOMAIN evaluations : j > i =>
               ~float_lt(evaluations[i].diversity_score,
                         evaluations[j].diversity_score)]

\* min(evaluations, key=lambda x: x.avg_embedding_time): the first of the
\* evaluations that none of the others is below.
min_by_time(evaluations) ==
    evaluations[CHOOSE i \in DOMAIN evaluations :
        /\ \A j \in DOMAIN evaluations : j < i =>
               float_lt(evaluations[i].avg_embedding_time,
                        evaluations[j].avg_embedding_time)
        /\ \A j \in DOMAIN evaluations : j > i =>
               ~float_lt(evaluations[j].avg_embedding_time,
                         evaluations[i].avg_embedding_time)]

\* comparison_summary['speed_range']: over the evaluations with a time
\* above zero, None when there is none.
speed_range(evaluations) ==
    LET timed == {i \in DOMAIN evaluations :
                     float_lt(Zero, evaluations[i].avg_embedding_time)}
    IN  IF timed = {} THEN None
        ELSE Some([fastest |->
                       evaluations[CHOOSE i \in timed : \A j \in timed :
                           ~float_lt(evaluations[j].avg_embedding_time,
                                     evaluations[i].avg_embedding_time)].avg_embedding_time,
                   slowest |->
                       evaluations[CHOOSE i \in timed : \A j \in timed :
                           ~float_lt(evaluations[i].avg_embedding_time,
                                     evaluations[j].avg_embedding_time)].avg_embedding_time])

\* The ComparisonResult of compare_models, without the scores.
comparison_result(evaluations) ==
    [models |-> evaluations,
     best_by_diversity |-> max_by_diversity(evaluations).model_name,
     best_by_speed |-> min_by_time(evaluations).model_name,
     speed_range |-> speed_range(evaluations)]

\* The lists of models a caller compares, and the models the evaluator
\* found available when it was built (read only when the list is empty).
ModelLists ==
    {<<>>, <<DefaultModel>>, <<OtherModel>>, <<DefaultModel, OtherModel>>,
     <<OtherModel, DefaultModel>>}

AvailableModels == {<<DefaultModel>>, <<DefaultModel, OtherModel>>}

\* EmbeddingModelEvaluator.compare_models(models_to_compare, force_regenerate)
\* on an evaluator whose available_models is `available`.  The call record
\* keeps the list given (first), the list evaluated (ids), the positions
\* that raised (nulls), those whose model was not ready (remote), the
\* evaluations (results) and the ComparisonResult (returned).
compare_models(models_to_compare, force_regenerate, available) ==
    \E models \in {IF models_to_compare = <<>> THEN available
                   ELSE models_to_compare} :
    \E inputs \in {q \in [1..Len(models) ->
                             UNION {EvaluationInputs(m) : m \in Models}] :
                      \A i \in 1..Len(models) : q[i] \in EvaluationInputs(models[i])} :
    \E out \in {compare_loop(models, inputs, 1, force_regenerate,
                             [job_embeddings |-> job_embeddings,
                              resume_embeddings |-> resume_embeddings,
                              evaluations |-> <<>>, failed |-> <<>>])} :
        /\ job_embeddings' = out.job_embeddings
        /\ resume_embeddings' = out.resume_embeddings
        /\ call' = [NoCall EXCEPT
               !.op = "compare_models",
               !.first = Some(models_to_compare),
               !.ids = Some(models),
               !.flag = force_regenerate,
               !.nulls = out.failed,
               !.remote = SelectSeq([i \in 1..Len(models) |-> i],
                                    LAMBDA i : ~inputs[i].ready),
               !.results = out.evaluations,
               !.raised = IF out.evaluations = <<>> THEN "RuntimeError" ELSE "",
               !.returned = IF out.evaluations = <<>> THEN None
                            ELSE Some(comparison_result(out.evaluations))]
        /\ UNCHANGED <<jobs, resumes, match_results, model_name, client_model,
                       sqlite_sequence, model_ready, env_file, config_file,
                       environ, config, writers, db_lock>>

\* The operations one run around the evaluator makes.
MaxCompareOps == 2

CompareAddJob ==
    /\ runs < MaxCompareOps
    /\ runs' = runs + 1
    /\ \E external_id \in ExternalIds, row \in {FullJob, TitleOnlyJob} :
           add_job(external_id, row)

CompareAddResume ==
    /\ runs < MaxCompareOps
    /\ runs' = runs + 1
    /\ add_resume(TextResume)

CompareGenerateJobEmbeddings ==
    /\ runs < MaxCompareOps
    /\ runs' = runs + 1
    /\ \E force \in BOOLEAN : generate_job_embeddings(None, force)

CompareGenerateResumeEmbeddings ==
    /\ runs < MaxCompareOps
    /\ runs' = runs + 1
    /\ \E force \in BOOLEAN : generate_resume_embeddings(None, force)

CompareCalculateSimilarityBatch ==
    /\ runs < MaxCompareOps
    /\ runs' = runs + 1
    /\ calculate_similarity_batch(None, None, TRUE)

CompareModels ==
    /\ runs < MaxCompareOps
    /\ runs' = runs + 1
    /\ \E models_to_compare \in ModelLists, force \in BOOLEAN :
       \E available \in IF models_to_compare = <<>> THEN AvailableModels
                         ELSE {<<DefaultModel>>} :
           compare_models(models_to_compare, force, available)

\* A database that holds one resume and two jobs, the second ingested
\* without content_text, with a pipeline and a matcher built for either
\* model: either nothing is embedded yet, or the pipeline has embedded the
\* first job and the resume and the matcher has saved their result.
InitCompare ==
    /\ jobs = (1 :> Some(FullJob @@ [external_id |-> "a"])
                 @@ 2 :> Some(TitleOnlyJob @@ [external_id |-> "b"]))
    /\ sqlite_sequence = [jobs |-> 2, resumes |-> 1]
    /\ resumes = (1 :> Some(TextResume) @@ 2 :> None)
    /\ model_name \in Models
    /\ \E matched \in BOOLEAN :
           /\ job_embeddings =
                  [k \in JobIds \X Models |->
                      IF matched /\ k = <<1, model_name>>
                      THEN Some([v |-> <<1>>, by |-> DefaultModel]) ELSE None]
           /\ resume_embeddings =
                  [k \in ResumeIds \X Models |->
                      IF matched /\ k = <<1, model_name>>
                      THEN Some([v |-> <<1>>, by |-> DefaultModel]) ELSE None]
           /\ match_results =
                  [k \in ResumeIds \X JobIds \X Models |->
                      IF matched /\ k = <<1, 1, model_name>>
                      THEN Some([similarity_score |-> Ratio(1, 1),
                                 adjusted_score |-> None])
                      ELSE None]
    /\ client_model = get_embedding_client
    /\ model_ready = Some(TRUE)
    /\ runs = 0
    /\ call = NoCall
    /\ InitConfig
    /\ InitWriters

NextCompare ==
    \/ CompareAddJob
    \/ CompareAddResume
    \/ CompareGenerateJobEmbeddings
    \/ CompareGenerateResumeEmbeddings
    \/ CompareCalculateSimilarityBatch
    \/ CompareModels

SpecCompare == InitCompare /\ [][NextCompare]_vars

(***************************************************************************)
(* Properties of the embedding pipeline, checked under Spec.               *)
(***************************************************************************)
Range(q) == {q[i] : i \in DOMAIN q}

Count(q, x) == Cardinality({i \in DOMAIN q : q[i] = x})

GJ == "generate_job_embeddings"
GR == "generate_resume_embeddings"

\* A step that makes a call of the operation op.
CallOf(op) == call'.op = op

\* The embeddings table a generate call works on, before and after the step.
TableOf(op) == IF op = GJ THEN job_embeddings ELSE resume_embeddings
TableAfter(op) == IF op = GJ THEN job_embeddings' ELSE resume_embeddings'
RowsOf(op) == IF op = GJ THEN jobs ELSE resumes

\* C1: every vector stored under a model name was produced by a service
\* call made with that model, whatever model_name the pipeline was built
\* with.
C1_StoredUnderProducingModel ==
    /\ \A k \in DOMAIN job_embeddings :
           job_embeddings[k] # None => job_embeddings[k][1].by = k[2]
    /\ \A k \in DOMAIN resume_embeddings :
           resume_embeddings[k] # None => resume_embeddings[k][1].by = k[2]

\* C2 as stated: a generate_job_embeddings call without force that repeats
\* the call before it returns 0 and leaves the job embeddings as they were.
C2_SecondCallWritesNothing ==
    [][(CallOf(GJ) /\ call'.again \in {"clean", "failed"})
          => (call'.ret = 0 /\ job_embeddings' = job_embeddings)]_vars

\* C2 amended: the repeated call returns 0 and leaves the job embeddings as
\* they were when no embedding of the first call came back None; otherwise
\* it writes only jobs whose embedding failed in the first call and leaves
\* every other job's embedding as it was.
C2_SecondCallIdempotent ==
    [][(CallOf(GJ) /\ call'.again \in {"clean", "failed"})
          => /\ Range(call'.written) \subseteq Range(call.nulls)
             /\ call'.ret = Len(call'.written)
             /\ \A k \in DOMAIN job_embeddings :
                    k[1] \notin Range(call.nulls)
                        => job_embeddings'[k] = job_embeddings[k]
             /\ call'.again = "clean"
                    => (call'.ret = 0 /\ job_embeddings' = job_embeddings)]_vars

\* C2 witness: a repeated unforced call after a first call that wrote
\* embeddings and had no failure.
C2_Witness ==
    /\ call.op = GJ
    /\ call.again = "clean"
    /\ call.ret = 0
    /\ \E k \in DOMAIN job_embeddings : job_embeddings[k] # None

\* C3: a generate call hands to the client exactly the selected rows without
\* an embedding for the pipeline's model, or all selected rows under force;
\* without force an embedding that was stored stays as it was.
C3_SubmittedIsFilter ==
    [][\A op \in {GJ, GR} : CallOf(op) =>
          LET candidates == Range(select_rows(RowsOf(op), call'.ids))
              lacking == {e \in candidates : TableOf(op)[<<e, model_name>>] = None}
          IN  /\ Range(call'.submitted) = IF call'.flag THEN candidates ELSE lacking
              /\ ~call'.flag =>
                     \A k \in DOMAIN TableOf(op) :
                         TableOf(op)[k] # None => TableAfter(op)[k] = TableOf(op)[k]]_vars

\* C3 witness: an unforced generate_job_embeddings call that handed one
\* selected job to the client and passed over another that was embedded.
C3_Witness ==
    /\ call.op = GJ
    /\ ~call.flag
    /\ call.submitted # <<>>
    /\ \E e \in Range(select_rows(jobs, call.ids)) \ Range(call.submitted) :
           job_embeddings[<<e, model_name>>] # None

\* C8: when an embedding comes back None nothing is written or removed for
\* that entity, the call raises nothing and every other candidate of the
\* batch is still processed.
C8_NullIsSkipped ==
    [][\A op \in {GJ, GR} : CallOf(op) =>
          /\ call'.raised = ""
          /\ \A e \in Range(call'.submitted) :
                 Count(call'.submitted, e)
                     = Count(call'.written, e) + Count(call'.nulls, e)
          /\ \A k \in DOMAIN TableOf(op) :
                 (k[1] \in Range(call'.nulls) /\ k[1] \notin Range(call'.written))
                     => TableAfter(op)[k] = TableOf(op)[k]
          /\ \A k \in DOMAIN TableOf(op) :
                 (k[1] \in Range(call'.written) /\ k[2] = model_name)
                     => TableAfter(op)[k] # None]_vars

\* C8 witness: the first candidate's embedding came back None and the
\* second candidate was embedded and saved.
C8_Witness ==
    /\ call.op \in {GJ, GR}
    /\ Len(call.submitted) = 2
    /\ call.nulls = <<call.submitted[1]>>
    /\ call.written = <<call.submitted[2]>>
    /\ call.submitted[1] # call.submitted[2]

\* C9: the count a generate call returns is the number of embeddings it
\* saved: a None embedding is not counted, a saved one is counted once.
C9_CountIsWrites ==
    [][\A op \in {GJ, GR} : CallOf(op) =>
          /\ call'.ret = Len(call'.written)
          /\ call'.ret + Len(call'.nulls) = Len(call'.submitted)
          /\ \A k \in DOMAIN TableOf(op) :
                 TableAfter(op)[k] # TableOf(op)[k]
                     => (k[1] \in Range(call'.written) /\ k[2] = model_name)
          /\ \A e \in Range(call'.written) :
                 TableAfter(op)[<<e, model_name>>] # None]_vars

\* C9 witness: a call that saved one embedding and got None for another.
C9_Witness ==
    /\ call.op \in {GJ, GR}
    /\ call.ret = 1
    /\ Len(call.nulls) = 1
    /\ Len(call.submitted) = 2

\* C10: no embedding is stored for a job or a resume whose content_text is
\* null.
C10_NoEmbeddingWithoutContentText ==
    /\ \A k \in DOMAIN job_embeddings :
           job_embeddings[k] # None
               => (jobs[k[1]] # None /\ jobs[k[1]][1].content_text # None)
    /\ \A k \in DOMAIN resume_embeddings :
           resume_embeddings[k] # None
               => (resumes[k[1]] # None /\ resumes[k[1]][1].content_text # None)

(***************************************************************************)
(* Properties of the store under the pipeline and the evaluator, checked   *)
(* under SpecEval.                                                         *)
(***************************************************************************)
GE == "generate_embeddings_for_model"

\* The rows a table holds under one key.
RowsUnder(table, k) == Len(table[k])

\* C11: the store holds at most one embedding per entity and model name
\* after any sequence of generate calls of the pipeline and the evaluator,
\* and a generate step leaves exactly one row under every key that had one:
\* a forced regeneration replaces the row.
C11_OneEmbeddingPerKey ==
    /\ [](/\ \A k \in DOMAIN job_embeddings : RowsUnder(job_embeddings, k) <= 1
          /\ \A k \in DOMAIN resume_embeddings : RowsUnder(resume_embeddings, k) <= 1)
    /\ [][\A op \in {GJ, GR, GE} : CallOf(op) =>
             /\ \A k \in DOMAIN job_embeddings :
                    job_embeddings[k] # None => RowsUnder(job_embeddings', k) = 1
             /\ \A k \in DOMAIN resume_embeddings :
                    resume_embeddings[k] # None => RowsUnder(resume_embeddings', k) = 1]_vars

\* C11 witness: a forced generate_job_embeddings call saved an embedding for
\* a job that had one under the pipeline's model.
C11_Witness ==
    /\ call.op = GJ
    /\ call.flag
    /\ call.replaced # <<>>
    /\ \A e \in Range(call.replaced) :
           RowsUnder(job_embeddings, <<e, model_name>>) = 1

\* The lengths of the vectors stored under a model name.
LengthsUnder(m) ==
    {Len(job_embeddings[k][1].v) :
        k \in {x \in DOMAIN job_embeddings : x[2] = m /\ job_embeddings[x] # None}}
    \cup {Len(resume_embeddings[k][1].v) :
        k \in {x \in DOMAIN resume_embeddings : x[2] = m /\ resume_embeddings[x] # None}}

\* C12: all the embeddings stored under one model name have one length.
C12_OneDimensionPerModel ==
    \A m \in Models : Cardinality(LengthsUnder(m)) <= 1

(***************************************************************************)
(* Properties of the similarity matcher, checked under SpecMatch.          *)
(***************************************************************************)
CSB == "calculate_similarity_batch"

\* An id list asks for the entity e: a list that is None or empty asks for
\* every entity (the reading the code takes).
Requested(ids, e) == ~Truthy(ids) \/ e \in Range(ids[1])

\* The resumes and the jobs a calculate_similarity_batch step asks for that
\* have an embedding under the matcher's model.
MatchedResumes ==
    {r \in ResumeIds : /\ resumes[r] # None
                       /\ resume_embeddings[<<r, model_name>>] # None
                       /\ Requested(call'.ids, r)}
MatchedJobs ==
    {j \in JobIds : /\ jobs[j] # None
                    /\ job_embeddings[<<j, model_name>>] # None
                    /\ Requested(call'.ids2, j)}

ResumeVec(r) == resume_embeddings[<<r, model_name>>][1].v
JobVec(j) == job_embeddings[<<j, model_name>>][1].v

\* The positions of the pair (r, j) in a list of results.
ResultsFor(q, r, j) ==
    {i \in DOMAIN q : q[i].resume_id = r /\ q[i].job_id = j}

\* C4: calculate_similarity_batch returns, without raising, one result for
\* every pair of a requested resume and a requested job that both have an
\* embedding under the matcher's model, and no result for any other pair.
C4_OneResultPerEmbeddedPair ==
    [][CallOf(CSB) =>
          /\ call'.raised = ""
          /\ \A r \in ResumeIds, j \in JobIds :
                 Cardinality(ResultsFor(call'.results, r, j))
                     = IF r \in MatchedResumes /\ j \in MatchedJobs THEN 1 ELSE 0]_vars

\* C5: the list calculate_similarity_batch returns never has a lower score
\* before a higher one, and results of equal score stand in the order they
\* were computed in.
C5_SortedAndStable ==
    [][(CallOf(CSB) /\ call'.raised = "") =>
          LET res == call'.results
              Position(x) == CHOOSE i \in DOMAIN call'.computed : call'.computed[i] = x
          IN  \A i, j \in DOMAIN res :
                  i < j =>
                      /\ ~float_lt(res[i].similarity_score, res[j].similarity_score)
                      /\ (/\ ~res[i].similarity_score.nan
                          /\ res[i].similarity_score = res[j].similarity_score)
                             => Position(res[i]) < Position(res[j])]_vars

\* C6: when the vectors compared have one length, every pair with a vector
\* of zero norm gets the score 0.0: the call returns, its list holds the
\* pair with score 0.0, the row it saves for the pair holds 0.0, and no NaN
\* is in the list or in match_results.
C6_ZeroNormScoresZero ==
    [][(/\ CallOf(CSB)
        /\ \A r \in MatchedResumes, j \in MatchedJobs :
               Len(ResumeVec(r)) = Len(JobVec(j))) =>
          /\ \A r \in MatchedResumes, j \in MatchedJobs :
                 (NormSq(ResumeVec(r)) = 0 \/ NormSq(JobVec(j)) = 0) =>
                     /\ call'.raised = ""
                     /\ \E i \in DOMAIN call'.results :
                            call'.results[i] = MatchResult(r, j, Zero)
                     /\ call'.flag =>
                            /\ match_results'[<<r, j, model_name>>] # None
                            /\ match_results'[<<r, j, model_name>>][1].similarity_score = Zero
          /\ \A i \in DOMAIN call'.results : ~call'.results[i].similarity_score.nan
          /\ \A k \in DOMAIN match_results' :
                 match_results'[k] # None => ~match_results'[k][1].similarity_score.nan]_vars

\* C7: when a requested resume vector and a requested job vector stored
\* under the matcher's model differ in length, the call raises
\* DimensionMismatch, returns no score for the pair and saves none.
C7_DimensionMismatchSurfaced ==
    [][CallOf(CSB) =>
          \A r \in MatchedResumes, j \in MatchedJobs :
              Len(ResumeVec(r)) # Len(JobVec(j)) =>
                  /\ call'.raised = "DimensionMismatch"
                  /\ ResultsFor(call'.results, r, j) = {}
                  /\ match_results'[<<r, j, model_name>>]
                         = match_results[<<r, j, model_name>>]]_vars

\* The results of a calculate_similarity_batch step whose save was reached
\* and went through: all that were computed, but the last one when its save
\* raised.
Persisted ==
    IF call'.raised = "IntegrityError"
    THEN SubSeq(call'.computed, 1, Len(call'.computed) - 1)
    ELSE call'.computed

\* C14: a calculate_similarity_batch call with save_results leaves in
\* match_results, under the matcher's model, the score of every pair it
\* went through before it returned or raised, and leaves every other row as
\* it was: a call that raises on pair k+1 has saved exactly the k pairs
\* before it.
C14_PersistedAsComputed ==
    [][(CallOf(CSB) /\ call'.flag) =>
          \A r \in ResumeIds, j \in JobIds, m \in Models :
              match_results'[<<r, j, m>>] =
                  IF m = model_name /\ ResultsFor(Persisted, r, j) # {}
                  THEN Some([similarity_score |->
                                 Persisted[CHOOSE i \in ResultsFor(Persisted, r, j) : TRUE]
                                     .similarity_score,
                             adjusted_score |-> None])
                  ELSE match_results[<<r, j, m>>]]_vars

\* C14 witness: a saving call raised on its third pair or later, with the
\* pairs before it saved and the failing pair not.
C14_Witness ==
    /\ call.op = CSB
    /\ call.flag
    /\ call.raised # ""
    /\ Cardinality({k \in DOMAIN match_results : match_results[k] # None}) >= 2
    /\ Cardinality({k \in DOMAIN match_results : match_results[k] # None}) < 4

(***************************************************************************)
(* Properties of the stored match results, checked under SpecResults.      *)
(***************************************************************************)
GT == "get_top_matches"

\* C13: match_results holds at most one row per resume, job and model name,
\* and after a calculate_similarity_batch call with save_results the row of
\* every pair the call computed holds the score the call computed.
C13_LatestScorePersisted ==
    /\ [](\A k \in DOMAIN match_results : Len(match_results[k]) <= 1)
    /\ [][(CallOf(CSB) /\ call'.flag) =>
             \A i \in DOMAIN call'.computed :
                 LET c == call'.computed[i]
                     k == <<c.resume_id, c.job_id, model_name>>
                 IN  match_results'[k] # None
                         => match_results'[k][1].similarity_score = c.similarity_score]_vars

\* C15: get_top_matches changes no stored data; it returns rows of
\* match_results of the resume and of the matcher's model, each once, with
\* no lower score before a higher one, as many as there are up to the limit,
\* and no such row left out has a higher score than a returned one.
C15_TopMatches ==
    [][CallOf(GT) =>
          LET res == call'.results
              resume_id == call'.ids[1][1]
              limit == call'.ids2[1][1]
              stored == {j \in JobIds : match_results[<<resume_id, j, model_name>>] # None}
              score(j) == match_results[<<resume_id, j, model_name>>][1].similarity_score
              returned == {res[i].job_id : i \in DOMAIN res}
          IN  /\ UNCHANGED <<jobs, resumes, job_embeddings, resume_embeddings,
                             match_results>>
              /\ \A i \in DOMAIN res :
                     /\ res[i].resume_id = resume_id
                     /\ res[i].job_id \in stored
                     /\ res[i].similarity_score = score(res[i].job_id)
              /\ \A i, j \in DOMAIN res : i # j => res[i].job_id # res[j].job_id
              /\ \A i, j \in DOMAIN res :
                     i < j => ~float_lt(res[i].similarity_score, res[j].similarity_score)
              /\ Len(res) = IF Cardinality(stored) < limit
                            THEN Cardinality(stored) ELSE limit
              /\ \A j \in stored \ returned, i \in DOMAIN res :
                     ~float_lt(res[i].similarity_score, score(j))]_vars

\* C15 witness: get_top_matches with limit 1 returned the higher of two
\* stored results of the resume that differ in score.
C15_Witness ==
    /\ call.op = GT
    /\ call.ids2 = Some(<<1>>)
    /\ Len(call.results) = 1
    /\ \E j \in JobIds :
           /\ match_results[<<call.ids[1][1], j, model_name>>] # None
           /\ float_lt(match_results[<<call.ids[1][1], j, model_name>>][1].similarity_score,
                       call.results[1].similarity_score)

\* C16: generate_job_embeddings and generate_resume_embeddings leave
\* match_results as it was.
C16_MatchResultsKept ==
    [][(CallOf(GJ) \/ CallOf(GR)) => match_results' = match_results]_vars

\* C16 witness: after a forced generate call a stored score of the
\* pipeline's model is not the one the stored embeddings give.
C16_Witness ==
    /\ call.op \in {GJ, GR}
    /\ call.flag
    /\ call.replaced # <<>>
    /\ \E r \in ResumeIds, j \in JobIds :
           /\ match_results[<<r, j, model_name>>] # None
           /\ resume_embeddings[<<r, model_name>>] # None
           /\ job_embeddings[<<j, model_name>>] # None
           /\ Len(resume_embeddings[<<r, model_name>>][1].v)
                  = Len(job_embeddings[<<j, model_name>>][1].v)
           /\ match_results[<<r, j, model_name>>][1].similarity_score
                  # cosine_similarity(resume_embeddings[<<r, model_name>>][1].v,
                                      job_embeddings[<<j, model_name>>][1].v).value

(***************************************************************************)
(* Properties of the life of a database, checked under SpecLife.           *)
(***************************************************************************)
\* C17: every stored embedding and every stored match result refers to a
\* job and a resume that have a row.
C17_NoOrphans ==
    /\ \A k \in RowKeys(job_embeddings) : jobs[k[1]] # None
    /\ \A k \in RowKeys(resume_embeddings) : resumes[k[1]] # None
    /\ \A k \in RowKeys(match_results) :
           resumes[k[1]] # None /\ jobs[k[2]] # None

\* C17 witness: delete_resume removed a resume together with an embedding
\* and a match result of it, and job embeddings are still stored.
C17_Witness ==
    /\ call.op = "delete_resume"
    /\ call.ret = 1
    /\ call.deleted >= 2
    /\ RowKeys(job_embeddings) # {}

(***************************************************************************)
(* Properties of the embedding client, checked under SpecClient.           *)
(***************************************************************************)
EMR == "ensure_model_ready"
GEm == "generate_embedding"
GEB == "generate_embeddings_batch"

\* A text that is null, empty or made of whitespace only.
Blank(text) ==
    text = None \/ \A i \in DOMAIN text[1] : text[1][i] \in Whitespace

\* C18: once a first ensure_model_ready on the client has returned b, every
\* later ensure_model_ready, called directly or by generate_embedding or
\* generate_embeddings_batch, returns b and makes no list or pull call.
C18_ReadinessCached ==
    [][(call.first # None /\ \E op \in {EMR, GEm, GEB} : CallOf(op)) =>
          /\ call'.flag = call.first[1]
          /\ CallOf(EMR) => call'.returned = call.first
          /\ "list" \notin Range(call'.remote)
          /\ "pull" \notin Range(call'.remote)
          /\ call'.first = call.first]_vars

\* C18 witness: a later ensure_model_ready returned false, as the first one
\* did, while the service by now lists the model.
C18_Witness ==
    /\ call.op = EMR
    /\ call.again = "yes"
    /\ call.first = Some(FALSE)
    /\ call.returned = Some(FALSE)
    /\ call.listed = "models"
    /\ call.remote = <<>>

\* C19: generate_embedding raises nothing; it returns None when the model is
\* not ready, when the text is null, empty or blank, when the remote call
\* fails and when the response holds no vector; and it makes no remote
\* embedding call when the model is not ready or the text is blank.
C19_NullNotException ==
    [][CallOf(GEm) =>
          LET text == call'.submitted[1]
              ans == call'.answers[1]
          IN  /\ call'.raised = ""
              /\ (~call'.flag \/ Blank(text) \/ ans.kind # "vector")
                     => call'.returned = Some(None)
              /\ (~call'.flag \/ Blank(text))
                     => "embeddings" \notin Range(call'.remote)]_vars

\* C19 witness: on a ready model and a text with words the remote call was
\* made and failed, and generate_embedding returned None.
C19_Witness ==
    /\ call.op = GEm
    /\ call.flag
    /\ ~Blank(call.submitted[1])
    /\ call.answers[1].kind = "error"
    /\ "embeddings" \in Range(call.remote)
    /\ call.returned = Some(None)

\* C20: generate_embeddings_batch returns one slot per text, slot i holding
\* what generate_embedding gives for text i, whatever the slots before it
\* hold; every slot is None when the model is not ready.
C20_BatchSlots ==
    [][CallOf(GEB) =>
          LET texts == call'.submitted
              out == call'.returned[1]
          IN  /\ call'.raised = ""
              /\ Len(out) = Len(texts)
              /\ \A i \in DOMAIN texts :
                     out[i] = embedding_request(client_model, call'.flag, texts[i],
                                                call'.answers[i]).ret
              /\ ~call'.flag => \A i \in DOMAIN out : out[i] = None]_vars

\* C20 witness: a batch of three whose first and third slots hold a vector
\* and whose second is None.
C20_Witness ==
    /\ call.op = GEB
    /\ Len(call.submitted) = 3
    /\ Len(call.returned[1]) = 3
    /\ call.returned[1][1] # None
    /\ call.returned[1][2] = None
    /\ call.returned[1][3] # None

(***************************************************************************)
(* Properties of the embedding statistics, checked under SpecStats.        *)
(***************************************************************************)
GS == "get_embedding_stats"

\* The entities of a table that have a content_text.
WithContent(rows) ==
    {k \in DOMAIN rows : rows[k] # None /\ rows[k][1].content_text # None}

\* The embeddings stored under a model.
EmbeddedUnder(embeddings, model) ==
    {k \in DOMAIN embeddings : k[2] = model /\ embeddings[k] # None}

\* What the statistics of one entity kind are to be.
ExpectedStats(rows, embeddings, model) ==
    [total |-> Cardinality(WithContent(rows)),
     with_embeddings |-> Cardinality(EmbeddedUnder(embeddings, model)),
     coverage_percent |->
         RoundPercent(Cardinality(EmbeddedUnder(embeddings, model)),
                      Max(Cardinality(WithContent(rows)), 1))]

\* C21: get_embedding_stats reports, for jobs and for resumes, the entities
\* with a content_text as total, the embeddings stored under the pipeline's
\* model as with_embeddings, and with_embeddings / max(total, 1) * 100
\* rounded to one decimal as coverage_percent.
C21_CoverageOverContent ==
    [][CallOf(GS) =>
          /\ call'.returned[1].jobs
                 = ExpectedStats(jobs, job_embeddings, model_name)
          /\ call'.returned[1].resumes
                 = ExpectedStats(resumes, resume_embeddings, model_name)]_vars

(***************************************************************************)
(* Explicit id lists, checked under Spec.                                  *)
(***************************************************************************)
\* C26: a generate call that is given a list of ids, the empty list
\* included, submits and embeds only entities whose id is in the list.
C26_OnlyListedIds ==
    [][\A op \in {GJ, GR} :
          (CallOf(op) /\ call'.ids # None) =>
              /\ Range(call'.submitted) \subseteq Range(call'.ids[1])
              /\ Range(call'.written) \subseteq Range(call'.ids[1])]_vars

(***************************************************************************)
(* Adjusted scores, checked under SpecAdjust.                              *)
(***************************************************************************)
\* C28: a calculate_similarity_batch call with save_results leaves the
\* adjusted_score stored for a pair it recomputes as it was.
C28_AdjustedScoreKept ==
    [][(CallOf(CSB) /\ call'.flag) =>
          \A i \in DOMAIN call'.computed :
              LET k == <<call'.computed[i].resume_id, call'.computed[i].job_id,
                         model_name>>
              IN  (match_results[k] # None /\ match_results'[k] # None
                      /\ match_results[k][1].adjusted_score # None)
                  => match_results'[k][1].adjusted_score
                         = match_results[k][1].adjusted_score]_vars

(***************************************************************************)
(* The evaluator against the pipeline, checked under SpecEval.             *)
(***************************************************************************)
\* The jobs and the resumes the pipeline selects for a run over every row.
PipelineJobs(force) ==
    Range(rows_to_process(select_rows(jobs, None), job_embeddings, model_name, force))

PipelineResumes(force) ==
    Range(rows_to_process(select_rows(resumes, None), resume_embeddings,
                          model_name, force))

\* The jobs and the resumes the evaluator selects for the same model.
EvaluatorJobs(force) ==
    Range(rows_to_evaluate(jobs, job_embeddings, model_name, force, MaxId(JobIds)))

EvaluatorResumes(force) ==
    Range(rows_to_evaluate(resumes, resume_embeddings, model_name, force,
                           MaxId(ResumeIds)))

\* C24: on one store, for one model and force flag, the evaluator selects
\* the jobs and the resumes the pipeline selects and hands the client the
\* text the pipeline hands it for each of them.
C24_EvaluatorAsPipeline ==
    \A force \in BOOLEAN :
        /\ EvaluatorJobs(force) = PipelineJobs(force)
        /\ EvaluatorResumes(force) = PipelineResumes(force)
        /\ \A j \in EvaluatorJobs(force) \cap PipelineJobs(force) :
               jobs[j][1].content_text = prepare_job_text(jobs[j][1])

(***************************************************************************)
(* Properties of the configuration, checked under SpecConfig.              *)
(***************************************************************************)
\* The configuration a process just started loads from the files.
FreshConfig(dotenv_file, json_file) ==
    load_config(dotenv_file, json_file, StartEnviron).config

\* C30: after set_env_var or unset_env_var has returned true, the
\* configuration in memory is the one a process just started would load
\* from the .env file and the JSON file as they now are.
C30_ReloadAsFresh ==
    [][((CallOf("set_env_var") \/ CallOf("unset_env_var"))
            /\ call'.returned = Some(TRUE))
          => config' = FreshConfig(env_file', config_file')]_vars

(***************************************************************************)
(* Properties of runs that write side by side, checked under SpecRace.     *)
(***************************************************************************)
\* The keys a transaction writes, and the embedding it writes last to a key.
PendingKeys(pending) ==
    {<<pending[i].id, pending[i].model>> : i \in DOMAIN pending}

LastWrite(pending, k) ==
    LET at == {i \in DOMAIN pending : <<pending[i].id, pending[i].model>> = k}
    IN  pending[MaxId(at)].embedding

\* The writer the last call was made on.
Caller == call'.first[1]

\* C25: whatever the interleaving of two runs, a key never holds more than
\* one row and the row is a complete vector of the service; a commit leaves
\* under each key it wrote exactly the vector that commit wrote last, and
\* every other key as it was; no other step changes a stored row.
C25_LastCommitWins ==
    [][/\ \A k \in DOMAIN job_embeddings' :
              /\ Len(job_embeddings'[k]) <= 1
              /\ job_embeddings'[k] # None =>
                     job_embeddings'[k][1].v \in VecsOf(job_embeddings'[k][1].by)
       /\ IF CallOf("commit") /\ call'.returned = Some(TRUE)
          THEN \A k \in DOMAIN job_embeddings :
                   job_embeddings'[k] =
                       IF k \in PendingKeys(writers[Caller].pending)
                       THEN LastWrite(writers[Caller].pending, k)
                       ELSE job_embeddings[k]
          ELSE job_embeddings' = job_embeddings]_vars

\* Witness for C25: a writer has just committed a key that the other
\* writer committed with another vector during its run, still going on.
C25_Witness ==
    /\ call.op = "commit"
    /\ call.returned = Some(TRUE)
    /\ \E o \in Writers \ {call.first[1]} :
           /\ writers[o].pc # "idle"
           /\ \E i \in DOMAIN writers[o].done, j \in DOMAIN writers[call.first[1]].done :
                  /\ writers[o].done[i].id = writers[call.first[1]].done[j].id
                  /\ writers[o].done[i].embedding # writers[call.first[1]].done[j].embedding
                  /\ job_embeddings[<<writers[o].done[i].id, model_name>>] =
                         writers[call.first[1]].done[j].embedding

(***************************************************************************)
(* Properties of compare_models, checked under SpecCompare.                *)
(***************************************************************************)
\* The positions of a list that are not among those given.
OtherPositions(n, positions) ==
    SelectSeq([i \in 1..n |-> i],
              LAMBDA i : \A p \in DOMAIN positions : positions[p] # i)

model_results(results, model, resume_id) ==
    {k \in DOMAIN results :
        results[k] # None /\ k[1] = resume_id /\ k[3] = model}

\* 100 times the jobs among the TopRank best results of the model for some
\* resume, over the jobs that have an embedding of the model (at least 1).
ExpectedDiversity(results, j_embeddings, model) ==
    LET top == UNION {top_rows(results, model_results(results, model, r)) :
                      r \in ResumeIds}
    IN  Ratio(Cardinality({k[2] : k \in top}) * 100,
              Max(1, CountModelRows(j_embeddings, model)))

\* x <= y for two numbers that are not NaN.
float_le(x, y) == ~x.nan /\ ~y.nan /\ x.num * y.den <= y.num * x.den

Hundred == Ratio(100, 1)

\* C23: the diversity_score of an evaluated model is 100 times the number
\* of jobs among the ten best stored results of that model for some resume,
\* over the number of jobs with an embedding of the model; results stored
\* for other models do not count, and the score lies between 0 and 100.
C23_DiversityOfModel ==
    [][CallOf("compare_models") =>
          \A i \in DOMAIN call'.results :
              /\ call'.results[i].diversity_score =
                     ExpectedDiversity(match_results', job_embeddings',
                                       call'.results[i].model_name)
              /\ float_le(Zero, call'.results[i].diversity_score)
              /\ float_le(call'.results[i].diversity_score, Hundred)]_vars

\* The evaluation of the model a ComparisonResult names.
EvaluationOf(result, name) ==
    result.models[CHOOSE i \in DOMAIN result.models :
                      result.models[i].model_name = name]

\* C27: when the result of compare_models has a speed_range, the model it
\* names best_by_speed has the avg_embedding_time speed_range gives as
\* fastest.
C27_BestBySpeedIsFastest ==
    [][(/\ CallOf("compare_models")
        /\ call'.returned # None
        /\ call'.returned[1].speed_range # None)
          => EvaluationOf(call'.returned[1],
                          call'.returned[1].best_by_speed).avg_embedding_time
                 = call'.returned[1].speed_range[1].fastest]_vars

\* C29: the coverage_percentage of every ModelEvaluation lies between 0
\* and 100, and the embeddings counted for the model are no more than the
\* jobs, and the resumes, that have content_text.
C29_CoverageInRange ==
    [][CallOf("compare_models") =>
          \A i \in DOMAIN call'.results :
              /\ float_le(Zero, call'.results[i].coverage_percentage)
              /\ float_le(call'.results[i].coverage_percentage, Hundred)
              /\ call'.results[i].total_jobs <= CountWithContent(jobs')
              /\ call'.results[i].total_resumes <= CountWithContent(resumes')]_vars

====
